---- MODULE Spec2Model ----
(***************************************************************************)
(* State-machine model of the pyRevit scripts of VerificadorInteligente:   *)
(* the sheet classifier and threshold validator (ResumoModelo,             *)
(* ValidarLayout) and the export runs that write CSV/JSON files to a       *)
(* history directory and to a "latest" directory.                          *)
(*                                                                         *)
(* Text is modelled as a sequence of characters, each character a string   *)
(* of the model.  Accented characters are written as ASCII digraphs:       *)
(* "e/" is e-acute, "E/" is E-acute, "a^" is a-circumflex, "A^" is         *)
(* A-circumflex.  Python's None is the one-element sequence NoneVal.       *)
(***************************************************************************)
EXTENDS Integers, Sequences, FiniteSets, TLC

VARIABLES
    sh,          \* classifier input: the sheet being classified
    rules,       \* classifier input: the keyword table
    label,       \* result of classify_sheet of ResumoModelo
    label_v,     \* result of classify_sheet of ValidarLayout
    stage,       \* position of the classifier / validator procedure
    cnt,         \* validator: the six counters
    mins,        \* validator: the six configured minimums
    issues,      \* validator: failure messages
    warns,       \* validator: consistency warnings
    approved,    \* validator: approval flag
    script,      \* run: the script that is running
    pc,          \* run: position in the script
    doc,         \* run: the host document the script reads
    idx,         \* run: index of the next record of the current loop
    files,       \* run: the file system, path -> content written so far
    open_files,  \* run: paths of the files that are open for writing
    ok,          \* run: ok / kept / total_pairs
    skipped,     \* run: skipped
    type_params_cache, \* run: type_params_cache of the full extraction
    hierarchy,   \* run: hierarchy of the full extraction
    counter,     \* run: counter (category -> count)
    sheet_classes, \* run: sheet_classes (label -> count)
    printed,     \* run: the final console summary was printed
    run_stamp,   \* run: the clock reading that names the history directory
    runs,        \* number of runs started so far
    io,          \* run: the kind of the last I/O error of the run, or "none"
    popup        \* run: what the modal dialog of the validator showed

clsVars == <<sh, rules, label, label_v, stage>>
valVars == <<cnt, mins, issues, warns, approved>>
runVars == <<script, pc, doc, idx, files, open_files, ok, skipped,
             type_params_cache, hierarchy, counter, sheet_classes, printed,
             run_stamp, runs, io, popup>>
vars == <<sh, rules, label, label_v, stage, cnt, mins, issues, warns, approved,
          script, pc, doc, idx, files, open_files, ok, skipped,
          type_params_cache, hierarchy, counter, sheet_classes, printed,
          run_stamp, runs, io, popup>>

(***************************************************************************)
(* Bounds of the model.                                                    *)
(***************************************************************************)
MaxNameLen == 2      \* generated sheet names have at most this many characters
MaxCount   == 1      \* validator counters range over 0..MaxCount
MaxMin     == 1      \* validator minimums range over 0..MaxMin
MaxElems   == 2      \* a document has at most this many elements
MaxSheets  == 2      \* a document has at most this many sheets
MaxRecs    == 2      \* a document has at most this many other host records
MaxRuns    == 2      \* a sequence of runs has at most this many runs

(***************************************************************************)
(* Characters and strings.                                                 *)
(***************************************************************************)
NoneVal == <<"<None>">>

LowerChars == <<"a","b","c","d","e","f","g","h","i","j","k","l","m",
                "n","o","p","q","r","s","t","u","v","w","x","y","z",
                "e/","a^">>
UpperChars == <<"A","B","C","D","E","F","G","H","I","J","K","L","M",
                "N","O","P","Q","R","S","T","U","V","W","X","Y","Z",
                "E/","A^">>

\* unicode.upper() on one character
upper_char(c) ==
    IF \E i \in 1..Len(LowerChars) : LowerChars[i] = c
    THEN UpperChars[CHOOSE i \in 1..Len(LowerChars) : LowerChars[i] = c]
    ELSE c

\* Python "k in text" on strings: k is a contiguous substring of text
IsIn(k, text) ==
    \E i \in 0..(Len(text) - Len(k)) : SubSeq(text, i + 1, i + Len(k)) = k

\* Python "x or ''"
or_empty(x) == IF x = NoneVal \/ x = <<>> THEN <<>> ELSE x

\* Ordinal order of the characters that occur in labels ("+" sorts before letters)
CharOrder == <<"+","A","B","C","D","E","F","G","H","I","J","K","L","M",
               "N","O","P","Q","R","S","T","U","V","W","X","Y","Z">>
Ord(c) == CHOOSE i \in 1..Len(CharOrder) : CharOrder[i] = c

\* Python's "<" on strings
RECURSIVE str_less(_, _)
str_less(a, b) ==
    IF b = <<>> THEN FALSE
    ELSE IF a = <<>> THEN TRUE
    ELSE IF Ord(Head(a)) # Ord(Head(b)) THEN Ord(Head(a)) < Ord(Head(b))
    ELSE str_less(Tail(a), Tail(b))

\* sorted(list(set(hits)))
RECURSIVE sorted_set(_)
sorted_set(S) ==
    IF S = {} THEN <<>>
    ELSE LET m == CHOOSE x \in S : \A y \in S \ {x} : str_less(x, y)
         IN  <<m>> \o sorted_set(S \ {m})

\* "+".join(hits)
RECURSIVE join_plus(_)
join_plus(hs) ==
    IF hs = <<>> THEN <<>>
    ELSE IF Len(hs) = 1 THEN hs[1]
    ELSE hs[1] \o <<"+">> \o join_plus(Tail(hs))

SeqToSet(s) == {s[i] : i \in 1..Len(s)}

(***************************************************************************)
(* Keyword tables.                                                         *)
(***************************************************************************)
ELETRICA  == <<"E","L","E","T","R","I","C","A">>
INFRA     == <<"I","N","F","R","A">>
SEGURANCA == <<"S","E","G","U","R","A","N","C","A">>
OUTROS    == <<"O","U","T","R","O","S">>

KeysEletrica == << <<"E","L">>, <<"E","L","E">>, <<"E","L","E/","T","R">>, <<"E","-">> >>
KeysInfra    == << <<"I","N","F">>, <<"T","I">>, <<"D","A","D","O","S">>,
                   <<"R","E","D","E">>, <<"R","A","C","K">>,
                   <<"C","A","B","E","A","M","E","N","T","O">> >>
KeysSeg      == << <<"S","E","G">>, <<"C","F","T","V">>, <<"A","L","A","R","M","E">>,
                   <<"A","C","E","S","S","O">>, <<"C","A","M","E","R","A">>,
                   <<"C","A^","M","E","R","A">> >>

\* SHEET_KEYWORDS of ResumoModelo
SHEET_KEYWORDS == << <<ELETRICA, KeysEletrica>>, <<INFRA, KeysInfra>>, <<SEGURANCA, KeysSeg>> >>
\* SHEET_RULES of ValidarLayout
SHEET_RULES == << <<ELETRICA, KeysEletrica>>, <<INFRA, KeysInfra>>, <<SEGURANCA, KeysSeg>> >>

(***************************************************************************)
(* norm_upper and classify_sheet, ResumoModelo and ValidarLayout.          *)
(***************************************************************************)
\* norm_upper without the case fold
norm_upper_asis(s) == s

\* ResumoModelo: the argument is always a unicode string
norm_upper(s) == [i \in 1..Len(s) |-> upper_char(s[i])]

\* the norm_upper of ValidarLayout without the case fold
norm_upper_v_asis(s) == IF s = NoneVal THEN <<>> ELSE s
\* ValidarLayout: None gives u""
norm_upper_v(s) == IF s = NoneVal THEN <<>> ELSE [i \in 1..Len(s) |-> upper_char(s[i])]

\* the inner loop with "k == name" in place of "k in name"
RECURSIVE key_hit_exact(_, _, _)
key_hit_exact(keys, name, j) ==
    IF j > Len(keys) THEN FALSE
    ELSE IF keys[j] = name THEN TRUE
    ELSE key_hit_exact(keys, name, j + 1)

\* inner loop "for k in keys: if k in name: ... break"
RECURSIVE key_hit(_, _, _)
key_hit(keys, name, j) ==
    IF j > Len(keys) THEN FALSE
    ELSE IF IsIn(keys[j], name) THEN TRUE
    ELSE key_hit(keys, name, j + 1)

\* outer loop "for label, keys in table": the list hits
RECURSIVE hits_of(_, _, _)
hits_of(table, name, i) ==
    IF i > Len(table) THEN <<>>
    ELSE (IF key_hit(table[i][2], name, 1) THEN <<table[i][1]>> ELSE <<>>)
         \o hits_of(table, name, i + 1)

sheet_text(s) == or_empty(s.SheetNumber) \o <<" ">> \o or_empty(s.Name)

\* classify_sheet without "sorted(list(set(hits)))"
classify_sheet_unsorted(s, table) ==
    LET name == norm_upper(sheet_text(s))
        hits == hits_of(table, name, 1)
    IN  IF hits = <<>> THEN OUTROS
        ELSE join_plus(hits)

classify_sheet(s, table) ==
    LET name == norm_upper(sheet_text(s))
        hits == hits_of(table, name, 1)
    IN  IF hits = <<>> THEN OUTROS
        ELSE join_plus(sorted_set(SeqToSet(hits)))

classify_sheet_v(s, table) ==
    LET text == norm_upper_v(sheet_text(s))
        hits == hits_of(table, text, 1)
    IN  IF hits = <<>> THEN OUTROS
        ELSE join_plus(sorted_set(SeqToSet(hits)))

(***************************************************************************)
(* Threshold validator of ValidarLayout.                                   *)
(***************************************************************************)
\* Shipped thresholds
MIN_SHEETS_ELETRICA == 1
MIN_SHEETS_INFRA    == 1
MIN_SHEETS_SEG      == 0
MIN_ELETRICA_ELEMS  == 50
MIN_INFRA_ELEMS     == 50
MIN_SEG_ELEMS       == 1
\* the fixed small-count cut-off of the consistency warnings
WARN_FEW_ELEMS      == 10

ShippedMins ==
    [sheets_ele |-> MIN_SHEETS_ELETRICA, sheets_inf |-> MIN_SHEETS_INFRA,
     sheets_seg |-> MIN_SHEETS_SEG,      elems_ele  |-> MIN_ELETRICA_ELEMS,
     elems_inf  |-> MIN_INFRA_ELEMS,     elems_seg  |-> MIN_SEG_ELEMS]

\* A failure message: which rule failed, with the two numbers it formats
Issue(tipo, disc, val, min) == [tipo |-> tipo, disc |-> disc, val |-> val, min |-> min]

\* the list issues without the check of the infra elements
issues_of_noinfra(c, m) ==
       (IF c.s_ele < m.sheets_ele
        THEN <<Issue("sheets", "ELETRICA", c.s_ele, m.sheets_ele)>> ELSE <<>>)
    \o (IF c.s_inf < m.sheets_inf
        THEN <<Issue("sheets", "INFRA", c.s_inf, m.sheets_inf)>> ELSE <<>>)
    \o (IF c.s_seg < m.sheets_seg
        THEN <<Issue("sheets", "SEGURANCA", c.s_seg, m.sheets_seg)>> ELSE <<>>)
    \o (IF c.count_eletrica < m.elems_ele
        THEN <<Issue("elements", "ELETRICA", c.count_eletrica, m.elems_ele)>> ELSE <<>>)
    \o (IF m.elems_seg > 0 /\ c.count_seg < m.elems_seg
        THEN <<Issue("elements", "SEGURANCA", c.count_seg, m.elems_seg)>> ELSE <<>>)

\* section 3: the list issues, in the order of the six "if" statements
issues_of(c, m) ==
       (IF c.s_ele < m.sheets_ele
        THEN <<Issue("sheets", "ELETRICA", c.s_ele, m.sheets_ele)>> ELSE <<>>)
    \o (IF c.s_inf < m.sheets_inf
        THEN <<Issue("sheets", "INFRA", c.s_inf, m.sheets_inf)>> ELSE <<>>)
    \o (IF c.s_seg < m.sheets_seg
        THEN <<Issue("sheets", "SEGURANCA", c.s_seg, m.sheets_seg)>> ELSE <<>>)
    \o (IF c.count_eletrica < m.elems_ele
        THEN <<Issue("elements", "ELETRICA", c.count_eletrica, m.elems_ele)>> ELSE <<>>)
    \o (IF c.count_infra < m.elems_inf
        THEN <<Issue("elements", "INFRA", c.count_infra, m.elems_inf)>> ELSE <<>>)
    \o (IF m.elems_seg > 0 /\ c.count_seg < m.elems_seg
        THEN <<Issue("elements", "SEGURANCA", c.count_seg, m.elems_seg)>> ELSE <<>>)

\* warnings whose cut-off lies above the shipped element minimums
warns_of_high_cutoff(c) ==
       (IF c.s_ele >= 1 /\ c.count_eletrica <= MIN_ELETRICA_ELEMS
        THEN <<"WARN_ELETRICA">> ELSE <<>>)
    \o (IF c.s_inf >= 1 /\ c.count_infra <= MIN_INFRA_ELEMS
        THEN <<"WARN_INFRA">> ELSE <<>>)
\* section 3: the list warns
warns_of(c) ==
       (IF c.s_ele >= 1 /\ c.count_eletrica < WARN_FEW_ELEMS
        THEN <<"WARN_ELETRICA">> ELSE <<>>)
    \o (IF c.s_inf >= 1 /\ c.count_infra < WARN_FEW_ELEMS
        THEN <<"WARN_INFRA">> ELSE <<>>)

\* an approval that a consistency warning blocks
approved_of_no_warning(iss) == Len(iss) = 0 /\ Len(warns_of(cnt)) = 0
\* approved = (len(issues) == 0)
approved_of(iss) == Len(iss) = 0

(***************************************************************************)
(* Inputs of the classifier and of the validator.                          *)
(***************************************************************************)
NameAlphabet == {"e", "L", "-", "t", "I"}

RECURSIVE StringsUpTo(_)
StringsUpTo(n) ==
    IF n = 0 THEN {<<>>}
    ELSE LET shorter == StringsUpTo(n - 1)
         IN  shorter \cup {Append(s, c) : s \in shorter, c \in NameAlphabet}

SampleNumbers ==
    { NoneVal, <<>>,
      <<"E","L","-","0","1">>,
      <<"e","-","2">>,
      <<"A","1">>,
      <<"i","n","f","-","3">>,
      <<"S","e","g">>,
      <<"E">> }

SampleNames ==
    { NoneVal,
      <<"Q","u","a","d","r","o"," ","E","l","e/","t","r","i","c","o">>,
      <<"c","f","t","v">>,
      <<"P","l","a","n","t","a">>,
      <<"c","a^","m","e","r","a">>,
      <<"-","r","a","c","k">> }

\* the shipped table, the same rules in another order, and a table in which
\* two rules carry the same label
Tables ==
    { SHEET_KEYWORDS,
      << <<SEGURANCA, KeysSeg>>, <<INFRA, KeysInfra>>, <<ELETRICA, KeysEletrica>> >>,
      << <<INFRA, << <<"T","I">> >> >>, <<ELETRICA, KeysEletrica>>,
         <<INFRA, << <<"I","N","F">>, <<"R","A","C","K">> >> >> >> }

Sheets == [SheetNumber : SampleNumbers, Name : SampleNames \cup StringsUpTo(MaxNameLen)]

NoCounters == [s_ele |-> 0, s_inf |-> 0, s_seg |-> 0,
               count_eletrica |-> 0, count_infra |-> 0, count_seg |-> 0]
NoSheet == [SheetNumber |-> <<>>, Name |-> <<>>]

Counters == [s_ele : 0..MaxCount, s_inf : 0..MaxCount, s_seg : 0..MaxCount,
             count_eletrica : 0..MaxCount, count_infra : 0..MaxCount,
             count_seg : 0..MaxCount]
Minimums == [sheets_ele : 0..MaxMin, sheets_inf : 0..MaxMin, sheets_seg : 0..MaxMin,
             elems_ele : 0..MaxMin, elems_inf : 0..MaxMin, elems_seg : 0..MaxMin]

\* no script is running
NoRun ==
    /\ script = "none"
    /\ pc = "idle"
    /\ doc = [elements |-> <<>>, sheets |-> <<>>, records |-> <<>>]
    /\ idx = 1
    /\ files = <<>>
    /\ open_files = {}
    /\ ok = 0
    /\ skipped = 0
    /\ type_params_cache = <<>>
    /\ hierarchy = <<>>
    /\ counter = <<>>
    /\ sheet_classes = <<>>
    /\ printed = FALSE
    /\ run_stamp = 0
    /\ runs = 0
    /\ io = "none"
    /\ popup = <<>>

(***************************************************************************)
(* The classifier applied to one sheet.                                    *)
(***************************************************************************)
InitClassify ==
    /\ sh \in Sheets
    /\ rules \in Tables
    /\ label = <<>>
    /\ label_v = <<>>
    /\ stage = "sheet"
    /\ cnt = NoCounters
    /\ mins = ShippedMins
    /\ issues = <<>>
    /\ warns = <<>>
    /\ approved = FALSE
    /\ NoRun

Classify ==
    /\ stage = "sheet"
    /\ label' = classify_sheet(sh, rules)
    /\ label_v' = classify_sheet_v(sh, rules)
    /\ stage' = "classified"
    /\ UNCHANGED <<sh, rules, cnt, mins, issues, warns, approved>>
    /\ UNCHANGED runVars

NextClassify == Classify

SpecClassify == InitClassify /\ [][NextClassify]_vars

(***************************************************************************)
(* The validator applied to one set of counters and minimums: small        *)
(* counters against small minimums, and counters at and next to the        *)
(* shipped thresholds against the shipped minimums.                        *)
(***************************************************************************)
InitValidate ==
    /\ sh = NoSheet
    /\ rules = SHEET_RULES
    /\ label = <<>>
    /\ label_v = <<>>
    /\ stage = "counted"
    /\ \/ /\ cnt \in Counters
          /\ mins \in Minimums
       \/ /\ cnt \in [s_ele : 0..1, s_inf : 0..1, s_seg : {0},
                       count_eletrica : {0, WARN_FEW_ELEMS - 1, WARN_FEW_ELEMS,
                                         MIN_ELETRICA_ELEMS - 1, MIN_ELETRICA_ELEMS},
                       count_infra : {0, WARN_FEW_ELEMS - 1, WARN_FEW_ELEMS,
                                      MIN_INFRA_ELEMS - 1, MIN_INFRA_ELEMS},
                       count_seg : {0, MIN_SEG_ELEMS}]
          /\ mins = ShippedMins
    /\ issues = <<>>
    /\ warns = <<>>
    /\ approved = FALSE
    /\ NoRun

Validate ==
    /\ stage = "counted"
    /\ issues' = issues_of(cnt, mins)
    /\ warns' = warns_of(cnt)
    /\ approved' = approved_of(issues')
    /\ stage' = "validated"
    /\ UNCHANGED <<sh, rules, label, label_v, cnt, mins>>
    /\ UNCHANGED runVars

NextValidate == Validate

SpecValidate == InitValidate /\ [][NextValidate]_vars

(***************************************************************************)
(* Properties of the classifier.                                           *)
(***************************************************************************)
\* the text of the sheet, case-folded to upper case character by character
UpperCasedText(s) ==
    LET t == sheet_text(s) IN [i \in 1..Len(t) |-> upper_char(t[i])]

\* the labels of the rules of which some keyword occurs in the text t
MatchedLabels(t, table) ==
    { table[i][1] : i \in { n \in 1..Len(table) :
                            \E j \in 1..Len(table[n][2]) : IsIn(table[n][2][j], t) } }

\* C1: classify_sheet returns "OUTROS" if and only if no keyword of any rule
\* of the table is a substring of the upper-cased sheet text.
C1_SentinelIffNoKeyword ==
    stage = "classified" =>
        /\ (label = OUTROS)   <=> (MatchedLabels(UpperCasedText(sh), rules) = {})
        /\ (label_v = OUTROS) <=> (MatchedLabels(UpperCasedText(sh), rules) = {})

C1_Witness ==
    /\ stage = "classified"
    /\ label = OUTROS
    /\ label_v = OUTROS
    /\ Len(sheet_text(sh)) > 3
    /\ rules = SHEET_KEYWORDS

\* a strictly increasing (alphabetical, duplicate-free) enumeration of the set M
IsSortedListOf(q, M) ==
    /\ Len(q) = Cardinality(M)
    /\ SeqToSet(q) = M
    /\ \A i \in 1..(Len(q) - 1) : str_less(q[i], q[i + 1])

\* C2: whenever a rule matches, the label is the set of matched labels, each
\* once, in alphabetical order, joined by "+", whatever the order of the rules.
C2_SortedJoinedLabels ==
    LET M == MatchedLabels(UpperCasedText(sh), rules) IN
    (stage = "classified" /\ M # {}) =>
        \E q \in [1..Cardinality(M) -> M] :
            /\ IsSortedListOf(q, M)
            /\ label = join_plus(q)
            /\ label_v = join_plus(q)

C2_Witness ==
    /\ stage = "classified"
    /\ rules # SHEET_KEYWORDS
    /\ Cardinality(MatchedLabels(UpperCasedText(sh), rules)) >= 2
    /\ label = ELETRICA \o <<"+">> \o INFRA

EL01QuadroEletrico ==
    [SheetNumber |-> <<"E","L","-","0","1">>,
     Name |-> <<"Q","u","a","d","r","o"," ","E","l","e/","t","r","i","c","o">>]

\* C5: the sheet "EL-01 Quadro Eletrico" (with e-acute) is classified as exactly
\* "ELETRICA" under the shipped keyword table.
C5_EL01IsEletrica ==
    (stage = "classified" /\ sh = EL01QuadroEletrico /\ rules = SHEET_KEYWORDS) =>
        (label = ELETRICA /\ label_v = ELETRICA)

C5_Witness ==
    /\ stage = "classified"
    /\ sh = EL01QuadroEletrico
    /\ rules = SHEET_KEYWORDS
    /\ label = ELETRICA

(***************************************************************************)
(* Properties of the validator.                                            *)
(***************************************************************************)
\* a minimum is met: zero is unenforced
Met(count, min) == min = 0 \/ count >= min

AllMinimumsMet ==
    /\ Met(cnt.s_ele, mins.sheets_ele)
    /\ Met(cnt.s_inf, mins.sheets_inf)
    /\ Met(cnt.s_seg, mins.sheets_seg)
    /\ Met(cnt.count_eletrica, mins.elems_ele)
    /\ Met(cnt.count_infra, mins.elems_inf)
    /\ Met(cnt.count_seg, mins.elems_seg)

\* C3: approved is true if and only if every configured minimum is met by its
\* counter, a minimum of zero being unenforced.
C3_ApprovedIffAllMet ==
    stage = "validated" => (approved <=> AllMinimumsMet)

C3_Witness ==
    /\ stage = "validated"
    /\ approved
    /\ mins.sheets_ele = 1 /\ mins.elems_ele = 1
    /\ mins.elems_seg = 0 /\ cnt.count_seg = 0

SheetsAllZero == cnt.s_ele = 0 /\ cnt.s_inf = 0 /\ cnt.s_seg = 0
SheetMinsOneOneZero == mins.sheets_ele = 1 /\ mins.sheets_inf = 1 /\ mins.sheets_seg = 0
ElemsAllZero == cnt.count_eletrica = 0 /\ cnt.count_infra = 0 /\ cnt.count_seg = 0
ElemMinsOneOneZero == mins.elems_ele = 1 /\ mins.elems_inf = 1 /\ mins.elems_seg = 0

\* the failure messages of one group of rules, in order
IssuesOfTipo(tipo) == SelectSeq(issues, LAMBDA m : m.tipo = tipo)
Discs(q) == [i \in 1..Len(q) |-> q[i].disc]

UnmetSheetMinimums ==
    Cardinality({ d \in {"e", "i", "s"} :
        \/ d = "e" /\ ~Met(cnt.s_ele, mins.sheets_ele)
        \/ d = "i" /\ ~Met(cnt.s_inf, mins.sheets_inf)
        \/ d = "s" /\ ~Met(cnt.s_seg, mins.sheets_seg) })
UnmetElementMinimums ==
    Cardinality({ d \in {"e", "i", "s"} :
        \/ d = "e" /\ ~Met(cnt.count_eletrica, mins.elems_ele)
        \/ d = "i" /\ ~Met(cnt.count_infra, mins.elems_inf)
        \/ d = "s" /\ ~Met(cnt.count_seg, mins.elems_seg) })

\* C4 as stated: counters 0, 0, 0 with minimums 1, 1, 0 give exactly two
\* failure messages and no approval.
C4_ExactlyTwoFailures ==
    (stage = "validated" /\ SheetsAllZero /\ SheetMinsOneOneZero) =>
        (Len(issues) = 2 /\ ~approved)

\* C4 amended: sheet counters 0, 0, 0 with sheet minimums 1, 1, 0 give no
\* approval and exactly the two sheet failures ELETRICA and INFRA, next to one
\* failure per unmet element minimum; likewise for the element counters.
C4_TwoFailuresPerGroup ==
    stage = "validated" =>
        /\ (SheetsAllZero /\ SheetMinsOneOneZero) =>
              /\ ~approved
              /\ Discs(IssuesOfTipo("sheets")) = <<"ELETRICA", "INFRA">>
              /\ Len(issues) = 2 + UnmetElementMinimums
        /\ (ElemsAllZero /\ ElemMinsOneOneZero) =>
              /\ ~approved
              /\ Discs(IssuesOfTipo("elements")) = <<"ELETRICA", "INFRA">>
              /\ Len(issues) = 2 + UnmetSheetMinimums

C4_Witness ==
    /\ stage = "validated"
    /\ SheetsAllZero /\ SheetMinsOneOneZero
    /\ Len(issues) = 2
    /\ ~approved

(***************************************************************************)
(* The host document and the file system of a run.                         *)
(***************************************************************************)
\* MAX_PARAM_LEN of the full extraction and of the quick extraction
MAX_PARAM_LEN        == 500
MAX_PARAM_LEN_RAPIDO == 300

Rep(c, n) == [i \in 1..n |-> c]

\* characters outside ASCII: UTF-8 encodes each in two bytes
Accented == {"e/", "E/", "a^", "A^"}

\* u8: unicode.encode("utf-8"), a sequence of bytes; None gives "".  The
\* text is encoded half by half.
RECURSIVE u8(_)
u8(x) ==
    IF x = NoneVal \/ x = <<>> THEN <<>>
    ELSE IF Len(x) = 1
    THEN (IF x[1] \in Accented THEN <<"0xC3", x[1]>> ELSE x)
    ELSE LET h == Len(x) \div 2
         IN  u8(SubSeq(x, 1, h)) \o u8(SubSeq(x, h + 1, Len(x)))

\* one host parameter: its name, its value as param_to_str gives it, and
\* whether reading it raises
Param(name, value, bad) == [name |-> name, value |-> value, bad |-> bad]

\* one host element; fault names the host read that raises for it, type_id 0
\* is an element without type, cat "" an element whose Category is None
Element(cat, fam, typ, type_id, params, tparams, fault) ==
    [cat |-> cat, fam |-> fam, typ |-> typ, type_id |-> type_id,
     level |-> <<"T", "e/", "r", "r", "e", "o">>, workset |-> "",
     phase_created |-> "Fase 1", phase_demolished |-> "", design_option |-> "",
     loc_kind |-> "POINT", loc_value |-> "0.0000,0.0000,0.0000",
     bbox_min |-> "0.0000,0.0000,0.0000", bbox_max |-> "1.0000,1.0000,1.0000",
     params |-> params, tparams |-> tparams, fault |-> fault]

\* the elements of the documents of the two extractions: an element with
\* long, accented, empty and unreadable parameter values, elements of other
\* categories and types, an element with a family name longer than
\* MAX_PARAM_LEN, an element of a second type that carries the category,
\* family name and type name of the first, one without category and type, and
\* one for each host read that can raise
ElementKinds ==
    LET FamA  == <<"L", "u", "m", " ", "A">>
        Typ1  == <<"6", "0", "x", "6", "0">>
        Typ2  == <<"D", "o", "m", "e">>
        Short == <<Param("Mark", <<"c">>, FALSE)>>
        SomeParams ==
            << Param("Mark", <<"a", "b">>, FALSE),
               Param("Comentarios", Rep("x", MAX_PARAM_LEN + 1), FALSE),
               Param("Modelo", Rep("e/", MAX_PARAM_LEN), FALSE),
               Param("Painel", Rep("y", MAX_PARAM_LEN_RAPIDO + 1), FALSE),
               Param("Carga", <<>>, FALSE),
               Param("Altura", <<"3">>, FALSE),
               Param("Tensao", <<"1">>, TRUE) >>
        TypeParams1 == << Param("Fabricante", Rep("z", MAX_PARAM_LEN + 2), FALSE),
                          Param("Largura", <<"6", "0">>, FALSE) >>
        TypeParams2 == << Param("Fabricante", <<"w">>, FALSE) >>
    IN  { Element("Luminarias", FamA, Typ1, 1, SomeParams, TypeParams1, "none"),
          Element("Luminarias", FamA, Typ1, 1, Short, TypeParams1, "none"),
          Element("Lumina/rias", <<"C", "a^", "m", "e", "r", "a", " ", "I", "P">>, Typ2, 2,
                  <<Param("Marca", <<"d">>, FALSE)>>, TypeParams2, "none"),
          Element("Conduites", Rep("F", MAX_PARAM_LEN + 1), Typ2, 3, <<>>, <<>>, "none"),
          Element("Paredes", FamA, Typ2, 4, <<>>, TypeParams2, "none"),
          Element("Luminarias", FamA, Typ1, 5, Short, TypeParams2, "none"),
          Element("", <<>>, <<>>, 0, <<>>, <<>>, "none") }
        \cup { Element("Luminarias", FamA, Typ1, 1, Short, TypeParams1, f) :
                 f \in {"category", "location", "bbox", "parameters", "uniqueid"} }

RECURSIVE SeqsUpTo(_, _)
SeqsUpTo(S, n) ==
    IF n = 0 THEN {<<>>}
    ELSE LET shorter == SeqsUpTo(S, n - 1)
         IN  shorter \cup {Append(q, x) : q \in shorter, x \in S}

\* the file system: a function from paths <<directory, file name>> to the
\* sequence of chunks written to the file since it was opened
BOM == <<"BOM">>
Header(cells) == <<"header", cells>>
Row(cells) == <<"row", cells>>
Json(value) == <<"json", value>>

\* an open that keeps what the file holds: open(path, "ab")
fopen_append(fs, path) ==
    [q \in DOMAIN fs \cup {path} |-> IF q \in DOMAIN fs THEN fs[q] ELSE <<>>]
\* open(path, "wb"): creates or truncates
fopen(fs, path) == [q \in DOMAIN fs \cup {path} |-> IF q = path THEN <<>> ELSE fs[q]]
\* a writer that leaves the rows of the latest directory unwritten
fwrite_history_only(fs, path, chunk) ==
    IF path[1][3] = "latest" /\ chunk[1] = "row" THEN fs
    ELSE [fs EXCEPT ![path] = Append(@, chunk)]

\* f.write / writer.writerow
fwrite(fs, path, chunk) == [fs EXCEPT ![path] = Append(@, chunk)]
\* a write_bom_csv that opens the file and writes no byte-order mark
write_bom_csv_nobom(fs, path) == fopen(fs, path)
\* write_bom_csv(path)
write_bom_csv(fs, path) == fwrite(fopen(fs, path), path, BOM)

RECURSIVE fwrite_all(_, _, _)
fwrite_all(fs, path, chunks) ==
    IF chunks = <<>> THEN fs
    ELSE fwrite_all(fwrite(fs, path, Head(chunks)), path, Tail(chunks))

\* one PLUGIN_NAME for all the scripts
PLUGIN_NAME_same(s) == "Plugin"
\* PLUGIN_NAME of each script
PLUGIN_NAME(s) ==
    CASE s = "ResumoModelo"  -> "ResumoModelo"
      [] s = "ValidarLayout" -> "ValidadorLayout"
      [] s = "Completo"      -> "ExtrairElementosCompleto"
      [] s = "Rapido"        -> "ExtrairElementosRapido"
      [] s = "Metadados"     -> "ExtrairMetadados"
      [] s = "TestAPI"       -> "TestAPI"

\* A directory is the sequence of the names on its path; every run is on the
\* model "model" and under the root folder revit_dump of the user's Desktop.

\* one latest directory for all the plugins: <root>/<model>/latest
LATEST_DIR_shared == <<"revit_dump", "model", "latest">>
\* os.path.join(ROOT_DIR, model_safe, PLUGIN_NAME, run_stamp)
RUN_DIR    == <<"revit_dump", "model", PLUGIN_NAME(script), run_stamp>>
\* os.path.join(ROOT_DIR, model_safe, "latest", PLUGIN_NAME)
LATEST_DIR == <<"revit_dump", "model", "latest", PLUGIN_NAME(script)>>

\* dict.setdefault and dict item assignment on a dict modelled as a function
put(d, k, v) == [x \in DOMAIN d \cup {k} |-> IF x = k THEN v ELSE d[x]]
setdefault(d, k, v) == IF k \in DOMAIN d THEN d ELSE put(d, k, v)

(***************************************************************************)
(* Helpers shared by the full and the quick extraction.                    *)
(***************************************************************************)
\* get_family_type(el): ("", "") when the element has no type
get_family_type(el) == IF el.type_id = 0 THEN << <<>>, <<>> >> ELSE <<el.fam, el.typ>>

\* the truncation left out
truncate_none(val, max_len) == val

\* the truncation of collect_params and write_top_params
truncate(val, max_len) == IF Len(val) > max_len THEN SubSeq(val, 1, max_len) ELSE val

\* el.UniqueId and str(eid_int(el.Id)) of the element at position i
unique_id(i) == <<"uid", i>>
el_id_str(i) == <<"id", i>>

(***************************************************************************)
(* Extrair Elementos Completo.                                             *)
(***************************************************************************)
\* collect_params(el, max_len): parameters that raise and parameters without
\* value are left out, long values are cut
RECURSIVE collect_params(_, _)
collect_params(ps, max_len) ==
    IF ps = <<>> THEN <<>>
    ELSE LET p == Head(ps)
         IN  (IF p.bad \/ p.value = <<>> THEN <<>>
              ELSE << [name |-> p.name, storage_type |-> "String",
                       value |-> truncate(p.value, max_len),
                       is_shared |-> FALSE, guid |-> "", group |-> "PG_DATA"] >>)
             \o collect_params(Tail(ps), max_len)

\* write_params_to_csv(owner_unique_id, owner_id, scope, params_list, writer)
write_params_to_csv(fs, path, i, scope, params_list) ==
    fwrite_all(fs, path,
        [n \in 1..Len(params_list) |->
            Row(<<"model", unique_id(i), el_id_str(i), scope, params_list[n].name,
                  params_list[n].storage_type, u8(params_list[n].value),
                  IF params_list[n].is_shared THEN "1" ELSE "0",
                  params_list[n].guid, params_list[n].group>>)])

ELEM_HEADER  == Header(<<"model", "element_id", "unique_id", "category", "family", "type",
                      "level", "workset", "phase_created", "phase_demolished",
                      "design_option", "loc_kind", "loc_value", "bbox_min", "bbox_max",
                      "run_stamp">>)
PARAM_HEADER == Header(<<"model", "unique_id", "element_id", "scope", "param_name",
                      "storage_type", "value_str", "is_shared", "guid", "group">>)

\* the row of elements.csv
elem_row(el, i) ==
    LET ft == get_family_type(el)
    IN  Row(<<"model", el_id_str(i), unique_id(i), el.cat, u8(ft[1]), u8(ft[2]),
              u8(el.level), el.workset, el.phase_created, el.phase_demolished,
              el.design_option, el.loc_kind, el.loc_value, el.bbox_min, el.bbox_max,
              "run_stamp">>)

\* the line of the loop body at which the faulty host read raises, late variant:
\* el.UniqueId first read when the parameter rows are written
completo_fault_line_late(f) ==
    CASE f = "category"   -> 520
      [] f = "location"   -> 526
      [] f = "bbox"       -> 527
      [] f = "parameters" -> 533
      [] f = "uniqueid"   -> 577

\* the line of the loop body at which the faulty host read raises
completo_fault_line(f) ==
    CASE f = "category"   -> 520
      [] f = "location"   -> 526
      [] f = "bbox"       -> 527
      [] f = "parameters" -> 533
      [] f = "uniqueid"   -> 556

\* the statement at this line of the loop body is executed for el
completo_reached(el, line) == el.fault = "none" \/ line < completo_fault_line(el.fault)

\* lines 538-548: type_params_cache after the element
cache_after(cache, el) ==
    IF el.type_id # 0 /\ <<"type", el.type_id>> \notin DOMAIN cache
    THEN put(cache, <<"type", el.type_id>>, collect_params(el.tparams, MAX_PARAM_LEN))
    ELSE cache

\* {p["name"]: p["value"] for p in params}
RECURSIVE dict_of(_)
dict_of(params_list) ==
    IF params_list = <<>> THEN <<>>
    ELSE LET n == Len(params_list)
         IN  put(dict_of(SubSeq(params_list, 1, n - 1)),
                 params_list[n].name, params_list[n].value)

\* the instance appended to typ_node["instances"]
instance_of(el, i, inst_params) ==
    [element_id |-> el_id_str(i), unique_id |-> unique_id(i), level |-> el.level,
     workset |-> el.workset, phase_created |-> el.phase_created,
     phase_demolished |-> el.phase_demolished, design_option |-> el.design_option,
     location |-> [kind |-> el.loc_kind, value |-> el.loc_value],
     bbox |-> [min |-> el.bbox_min, max |-> el.bbox_max],
     instance_params |-> dict_of(inst_params)]

\* a hierarchy whose type node takes the type parameters of its latest instance
hierarchy_add_latest_type_params(h, cat, fam, typ, type_params, inst) ==
    LET h1        == setdefault(h, cat, [total |-> 0, families |-> <<>>])
        cat_node  == h1[cat]
        fams1     == setdefault(cat_node.families, fam, [total |-> 0, types |-> <<>>])
        fam_node  == fams1[fam]
        types1    == setdefault(fam_node.types, typ,
                                [total |-> 0, type_params |-> <<>>, instances |-> <<>>])
        typ_node  == types1[typ]
        typ_node2 == [typ_node EXCEPT !.total = @ + 1,
                                      !.type_params = dict_of(type_params),
                                      !.instances = Append(@, inst)]
        fam_node2 == [total |-> fam_node.total + 1,
                      types |-> put(types1, typ, typ_node2)]
        cat_node2 == [total |-> cat_node.total + 1,
                      families |-> put(fams1, fam, fam_node2)]
    IN  put(h1, cat, cat_node2)
\* a hierarchy whose family nodes are not counted up
hierarchy_add_family_uncounted(h, cat, fam, typ, type_params, inst) ==
    LET h1        == setdefault(h, cat, [total |-> 0, families |-> <<>>])
        cat_node  == h1[cat]
        fams1     == setdefault(cat_node.families, fam, [total |-> 0, types |-> <<>>])
        fam_node  == fams1[fam]
        types1    == setdefault(fam_node.types, typ,
                                [total |-> 0, type_params |-> dict_of(type_params),
                                 instances |-> <<>>])
        typ_node  == types1[typ]
        typ_node2 == [typ_node EXCEPT !.total = @ + 1,
                                      !.instances = Append(@, inst)]
        fam_node2 == [total |-> fam_node.total,
                      types |-> put(types1, typ, typ_node2)]
        cat_node2 == [total |-> cat_node.total + 1,
                      families |-> put(fams1, fam, fam_node2)]
    IN  put(h1, cat, cat_node2)
\* lines 587-623: the hierarchy after one extracted element
hierarchy_add(h, cat, fam, typ, type_params, inst) ==
    LET h1        == setdefault(h, cat, [total |-> 0, families |-> <<>>])
        cat_node  == h1[cat]
        fams1     == setdefault(cat_node.families, fam, [total |-> 0, types |-> <<>>])
        fam_node  == fams1[fam]
        types1    == setdefault(fam_node.types, typ,
                                [total |-> 0, type_params |-> dict_of(type_params),
                                 instances |-> <<>>])
        typ_node  == types1[typ]
        typ_node2 == [typ_node EXCEPT !.total = @ + 1,
                                      !.instances = Append(@, inst)]
        fam_node2 == [total |-> fam_node.total + 1,
                      types |-> put(types1, typ, typ_node2)]
        cat_node2 == [total |-> cat_node.total + 1,
                      families |-> put(fams1, fam, fam_node2)]
    IN  put(h1, cat, cat_node2)

\* output_json
output_json == [model |-> "model", run_stamp |-> "run_stamp",
                total_elements |-> ok, total_skipped |-> skipped,
                total_categories |-> Cardinality(DOMAIN hierarchy),
                hierarchy |-> hierarchy]

\* lines 431-477: the four CSV files are opened and get BOM and header
CompletoOpen ==
    /\ script = "Completo" /\ pc = "start"
    /\ files' =
         LET f1 == write_bom_csv(files, <<RUN_DIR, "elements.csv">>)
             f2 == write_bom_csv(f1, <<RUN_DIR, "params.csv">>)
             f3 == write_bom_csv(f2, <<LATEST_DIR, "elements.csv">>)
             f4 == write_bom_csv(f3, <<LATEST_DIR, "params.csv">>)
             f5 == fwrite(f4, <<RUN_DIR, "elements.csv">>, ELEM_HEADER)
             f6 == fwrite(f5, <<LATEST_DIR, "elements.csv">>, ELEM_HEADER)
             f7 == fwrite(f6, <<RUN_DIR, "params.csv">>, PARAM_HEADER)
         IN  fwrite(f7, <<LATEST_DIR, "params.csv">>, PARAM_HEADER)
    /\ open_files' = open_files \cup
         {<<RUN_DIR, "elements.csv">>, <<RUN_DIR, "params.csv">>,
          <<LATEST_DIR, "elements.csv">>, <<LATEST_DIR, "params.csv">>}
    /\ pc' = "loop"
    /\ idx' = 1
    /\ UNCHANGED <<script, run_stamp, runs, io, popup, doc, ok, skipped, type_params_cache, hierarchy, counter,
                   sheet_classes, printed>>
    /\ UNCHANGED <<clsVars, valVars>>

\* lines 517-629: one iteration of the main loop, with its try/except
CompletoElement ==
    /\ script = "Completo" /\ pc = "loop" /\ idx <= Len(doc.elements)
    /\ LET el          == doc.elements[idx]
           ft          == get_family_type(el)
           inst_params == collect_params(el.params, MAX_PARAM_LEN)
           cache1      == cache_after(type_params_cache, el)
           type_params == IF el.type_id # 0 THEN cache1[<<"type", el.type_id>>] ELSE <<>>
           f1 == fwrite(files, <<RUN_DIR, "elements.csv">>, elem_row(el, idx))
           f2 == fwrite(f1, <<LATEST_DIR, "elements.csv">>, elem_row(el, idx))
           f3 == write_params_to_csv(f2, <<RUN_DIR, "params.csv">>, idx, "instance", inst_params)
           f4 == write_params_to_csv(f3, <<LATEST_DIR, "params.csv">>, idx, "instance", inst_params)
           f5 == write_params_to_csv(f4, <<RUN_DIR, "params.csv">>, idx, "type", type_params)
           f6 == write_params_to_csv(f5, <<LATEST_DIR, "params.csv">>, idx, "type", type_params)
       IN  /\ type_params_cache' =
                 IF completo_reached(el, 545) THEN cache1 ELSE type_params_cache
           /\ files' = IF completo_reached(el, 577) THEN f6
                       ELSE IF completo_reached(el, 571) THEN f2
                       ELSE files
           /\ hierarchy' =
                 IF completo_reached(el, 587)
                 THEN hierarchy_add(hierarchy, el.cat, ft[1], ft[2], type_params,
                                    instance_of(el, idx, inst_params))
                 ELSE hierarchy
           /\ ok' = IF completo_reached(el, 625) THEN ok + 1 ELSE ok
           /\ skipped' = IF completo_reached(el, 625) THEN skipped ELSE skipped + 1
    /\ idx' = idx + 1
    /\ UNCHANGED <<script, run_stamp, runs, io, popup, pc, doc, open_files, counter, sheet_classes, printed>>
    /\ UNCHANGED <<clsVars, valVars>>

\* lines 634-637: the four CSV files are closed
CompletoClose ==
    /\ script = "Completo" /\ pc = "loop" /\ idx > Len(doc.elements)
    /\ open_files' = open_files \
         {<<RUN_DIR, "elements.csv">>, <<RUN_DIR, "params.csv">>,
          <<LATEST_DIR, "elements.csv">>, <<LATEST_DIR, "params.csv">>}
    /\ pc' = "json_run"
    /\ UNCHANGED <<script, run_stamp, runs, io, popup, doc, idx, files, ok, skipped, type_params_cache, hierarchy,
                   counter, sheet_classes, printed>>
    /\ UNCHANGED <<clsVars, valVars>>

\* a write_json that stops after the byte-order mark
write_json_bom_only(fs, path, value) == fwrite(fopen(fs, path), path, BOM)
\* write_json(path) of the scripts that write BOM + json.dumps(...)
write_json(fs, path, value) == fwrite(fwrite(fopen(fs, path), path, BOM), path, Json(value))

\* lines 671-672: write_json(json_path); write_json(json_path_latest)
CompletoWriteJson(dir) ==
    /\ script = "Completo"
    /\ pc = (IF dir = RUN_DIR THEN "json_run" ELSE "json_latest")
    /\ files' = write_json(files, <<dir, "model_hierarchy.json">>, output_json)
    /\ pc' = (IF dir = RUN_DIR THEN "json_latest" ELSE "summary")
    /\ UNCHANGED <<script, run_stamp, runs, io, popup, doc, idx, open_files, ok, skipped, type_params_cache,
                   hierarchy, counter, sheet_classes, printed>>
    /\ UNCHANGED <<clsVars, valVars>>

\* the final console summary of a script
Summary ==
    /\ script # "none" /\ pc = "summary"
    /\ printed' = TRUE
    /\ pc' = (IF script = "ValidarLayout" THEN "popup" ELSE "done")
    /\ UNCHANGED <<script, run_stamp, runs, io, popup, doc, idx, files, open_files, ok, skipped, type_params_cache,
                   hierarchy, counter, sheet_classes>>
    /\ UNCHANGED <<clsVars, valVars>>

(***************************************************************************)
(* Extrair Elementos Rapido.                                               *)
(***************************************************************************)
ALLOW_CATEGORIES ==
    {"Conduites", "Conexoes do conduite", "Fiacao", "Circuitos eletricos",
     "Luminarias", "Dispositivos eletricos", "Equipamentos eletricos",
     "Bandejas de cabos", "Conexoes da bandeja de cabos",
     "Eletrocalhas", "Conexoes da eletrocalha",
     "Identificadores de luminaria", "Identificadores de dispositivos eletricos",
     "Ambientes", "Salas", "Niveis", "Linhas de centro"}

TOP_PARAMS ==
    {"Mark", "Marca", "Comentarios", "Comment",
     "Nome do sistema", "Classificacao do sistema", "System Classification",
     "Numero do circuito", "Circuit Number",
     "Painel", "Panel", "Tensao", "Voltage", "Carga", "Load",
     "Fabricante", "Manufacturer", "Modelo", "Model"}

ELEM_HEADER_RAPIDO  == Header(<<"model", "element_id", "unique_id", "category", "family",
                             "type", "level", "workset", "loc_kind", "loc_value",
                             "bbox_min", "bbox_max", "run_stamp">>)
PARAM_HEADER_RAPIDO == Header(<<"model", "unique_id", "element_id", "param_name",
                             "value_str", "run_stamp">>)

\* the rows write_top_params writes for the parameters ps of element i
RECURSIVE top_param_rows(_, _)
top_param_rows(i, ps) ==
    IF ps = <<>> THEN <<>>
    ELSE LET p == Head(ps)
         IN  (IF p.bad \/ p.name \notin TOP_PARAMS \/ p.value = <<>> THEN <<>>
              ELSE << Row(<<"model", unique_id(i), el_id_str(i), p.name,
                            u8(truncate(p.value, MAX_PARAM_LEN_RAPIDO)), "run_stamp">>) >>)
             \o top_param_rows(i, Tail(ps))

\* write_top_params(unique_id, element_id, el, writer)
write_top_params(fs, path, i, el) == fwrite_all(fs, path, top_param_rows(i, el.params))

\* the row of elements_rapido.csv
elem_row_rapido(el, i) ==
    LET ft == get_family_type(el)
    IN  Row(<<"model", el_id_str(i), unique_id(i), el.cat, u8(ft[1]), u8(ft[2]),
              u8(el.level), el.workset, el.loc_kind, el.loc_value,
              el.bbox_min, el.bbox_max, "run_stamp">>)

\* the line of the loop body at which the faulty host read raises
rapido_fault_line(f) ==
    CASE f = "category"   -> 360
      [] f = "location"   -> 372
      [] f = "bbox"       -> 373
      [] f = "uniqueid"   -> 377
      [] f = "parameters" -> 386

rapido_reached(el, line) == el.fault = "none" \/ line < rapido_fault_line(el.fault)

\* a filter that lets every element through
rapido_ignored_never(el) == FALSE
\* line 363: the element is outside the categories of interest
rapido_ignored(el) == el.fault # "category" /\ el.cat # "" /\ el.cat \notin ALLOW_CATEGORIES

\* lines 304-343: the four CSV files are opened and get BOM and header
RapidoOpen ==
    /\ script = "Rapido" /\ pc = "start"
    /\ files' =
         LET f1 == write_bom_csv(files, <<RUN_DIR, "elements_rapido.csv">>)
             f2 == write_bom_csv(f1, <<RUN_DIR, "params_top.csv">>)
             f3 == write_bom_csv(f2, <<LATEST_DIR, "elements_rapido.csv">>)
             f4 == write_bom_csv(f3, <<LATEST_DIR, "params_top.csv">>)
             f5 == fwrite(f4, <<RUN_DIR, "elements_rapido.csv">>, ELEM_HEADER_RAPIDO)
             f6 == fwrite(f5, <<LATEST_DIR, "elements_rapido.csv">>, ELEM_HEADER_RAPIDO)
             f7 == fwrite(f6, <<RUN_DIR, "params_top.csv">>, PARAM_HEADER_RAPIDO)
         IN  fwrite(f7, <<LATEST_DIR, "params_top.csv">>, PARAM_HEADER_RAPIDO)
    /\ open_files' = open_files \cup
         {<<RUN_DIR, "elements_rapido.csv">>, <<RUN_DIR, "params_top.csv">>,
          <<LATEST_DIR, "elements_rapido.csv">>, <<LATEST_DIR, "params_top.csv">>}
    /\ pc' = "loop"
    /\ idx' = 1
    /\ UNCHANGED <<script, run_stamp, runs, io, popup, doc, ok, skipped, type_params_cache, hierarchy, counter,
                   sheet_classes, printed>>
    /\ UNCHANGED <<clsVars, valVars>>

\* lines 358-392: one iteration of the loop, with its try/except
RapidoElement ==
    /\ script = "Rapido" /\ pc = "loop" /\ idx <= Len(doc.elements)
    /\ LET el == doc.elements[idx]
           f1 == fwrite(files, <<RUN_DIR, "elements_rapido.csv">>, elem_row_rapido(el, idx))
           f2 == fwrite(f1, <<LATEST_DIR, "elements_rapido.csv">>, elem_row_rapido(el, idx))
           f3 == write_top_params(f2, <<RUN_DIR, "params_top.csv">>, idx, el)
           f4 == write_top_params(f3, <<LATEST_DIR, "params_top.csv">>, idx, el)
       IN  IF rapido_ignored(el)
           THEN UNCHANGED <<files, ok, skipped>>
           ELSE /\ files' = IF rapido_reached(el, 387) THEN f4
                            ELSE IF rapido_reached(el, 383) THEN f2
                            ELSE files
                /\ ok' = IF rapido_reached(el, 389) THEN ok + 1 ELSE ok
                /\ skipped' = IF rapido_reached(el, 389) THEN skipped ELSE skipped + 1
    /\ idx' = idx + 1
    /\ UNCHANGED <<script, run_stamp, runs, io, popup, pc, doc, open_files, type_params_cache, hierarchy, counter,
                   sheet_classes, printed>>
    /\ UNCHANGED <<clsVars, valVars>>

\* lines 395-398: the four CSV files are closed
RapidoClose ==
    /\ script = "Rapido" /\ pc = "loop" /\ idx > Len(doc.elements)
    /\ open_files' = open_files \
         {<<RUN_DIR, "elements_rapido.csv">>, <<RUN_DIR, "params_top.csv">>,
          <<LATEST_DIR, "elements_rapido.csv">>, <<LATEST_DIR, "params_top.csv">>}
    /\ pc' = "summary"
    /\ UNCHANGED <<script, run_stamp, runs, io, popup, doc, idx, files, ok, skipped, type_params_cache, hierarchy,
                   counter, sheet_classes, printed>>
    /\ UNCHANGED <<clsVars, valVars>>

(***************************************************************************)
(* Sheets, counters and numbers as the analysis scripts use them.          *)
(***************************************************************************)
\* one host viewport: the name of its view, and whether reading the view raises
Viewport(name, bad) == [view_name |-> name, bad |-> bad]

\* one host sheet; fault names the host read that raises for it
Sheet(number, name, fault, vports) ==
    [SheetNumber |-> number, Name |-> name, fault |-> fault, vports |-> vports]

\* the sheets of the documents of the analysis scripts
SheetKinds ==
    { Sheet(<<"E","L","-","0","1">>,
            <<"Q","u","a","d","r","o"," ","E","l","e/","t","r","i","c","o">>, "none",
            <<Viewport(<<"P","l","a","n","t","a">>, FALSE),
              Viewport(<<"C","o","r","t","e">>, TRUE)>>),
      Sheet(<<"i","n","f","-","3">>, <<"c","f","t","v">>, "none",
            <<Viewport(<<"C","o","r","t","e">>, FALSE)>>),
      Sheet(NoneVal, <<"P","l","a","n","t","a">>, "none", <<>>),
      Sheet(<<"E","L","-","0","2">>, <<"Q","G","B","T">>, "name",
            <<Viewport(<<"P","l","a","n","t","a">>, FALSE)>>) }

\* the sheets of the documents of Extrair Metadados
SheetKindsMetadados ==
    {s \in SheetKinds : s.Name # <<"c","f","t","v">>}
    \cup { Sheet(<<"A","1">>, <<"P","l","a","n","t","a">>, "viewports",
                 <<Viewport(<<"P","l","a","n","t","a">>, FALSE)>>) }

\* elements as the analysis scripts read them: category, family, type
ElementKindsAnalysis ==
    { Element("Lumina/rias", <<"C", "a^", "m", "e", "r", "a", " ", "I", "P">>,
              <<"D", "o", "m", "e">>, 2, <<>>, <<>>, "none"),
      Element("Conduites", <<"L", "u", "m", " ", "A">>, <<"6", "0", "x", "6", "0">>, 3,
              <<>>, <<>>, "none"),
      Element("Paredes", <<"A", "l", "a", "r", "m", "e">>, <<"D", "o", "m", "e">>, 4,
              <<>>, <<>>, "none"),
      Element("Luminarias", <<"S", "e", "n", "s", "o", "r">>, <<"6", "0", "x", "6", "0">>, 1,
              <<>>, <<>>, "category") }

\* str(n) of a natural number
RECURSIVE itoa(_)
itoa(n) ==
    LET Digits == <<"0", "1", "2", "3", "4", "5", "6", "7", "8", "9">>
    IN  IF n < 10 THEN <<Digits[n + 1]>>
        ELSE itoa(n \div 10) \o <<Digits[(n % 10) + 1]>>

\* Counter: c[k] += 1
count_add(c, k) == IF k \in DOMAIN c THEN [c EXCEPT ![k] = @ + 1] ELSE put(c, k, 1)

\* the order in which a dictionary enumerates categories of equal count
rank(k) ==
    LET HashOrder == <<"Conduites", "Luminarias", "Lumina/rias", "Paredes">>
    IN  CHOOSE n \in 1..Len(HashOrder) : HashOrder[n] = k

\* Counter.most_common(): pairs (key, count), highest count first
RECURSIVE most_common_all(_)
most_common_all(c) ==
    IF DOMAIN c = {} THEN <<>>
    ELSE LET k == CHOOSE k \in DOMAIN c :
                     \A j \in DOMAIN c :
                        c[k] > c[j] \/ (c[k] = c[j] /\ rank(k) <= rank(j))
         IN  << <<k, c[k]>> >> \o most_common_all([x \in DOMAIN c \ {k} |-> c[x]])

\* Counter.most_common(n)
most_common(c, n) ==
    LET all == most_common_all(c)
    IN  IF Len(all) > n THEN SubSeq(all, 1, n) ELSE all

\* the categories of the elements whose category can be read and is not None
RECURSIVE count_categories(_)
count_categories(els) ==
    IF els = <<>> THEN <<>>
    ELSE LET n  == Len(els)
             el == els[n]
             c  == count_categories(SubSeq(els, 1, n - 1))
         IN  IF el.fault = "category" \/ el.cat = "" THEN c ELSE count_add(c, el.cat)

\* reading the number and the name of the sheet raises
sheet_unreadable(s) == s.fault \in {"name", "number"}

\* sheet_classes[classify_sheet(sh)] += 1 over the sheets, errors passed over
RECURSIVE count_sheet_classes(_, _)
count_sheet_classes(shs, table) ==
    IF shs = <<>> THEN <<>>
    ELSE LET n == Len(shs)
             c == count_sheet_classes(SubSeq(shs, 1, n - 1), table)
         IN  IF sheet_unreadable(shs[n]) THEN c
             ELSE count_add(c, classify_sheet(shs[n], table))

(***************************************************************************)
(* ResumoModelo.                                                           *)
(***************************************************************************)
TOP_N == 25

TOPCATS_HEADER == Header(<<"model", "total_elementos", "categoria", "qtd">>)
SHEETS_HEADER  == Header(<<"model", "sheet_number", "sheet_name", "classificacao">>)

\* lines 170-235: counter and sheet_classes are computed
ResumoCollect ==
    /\ script = "ResumoModelo" /\ pc = "start"
    /\ counter' = count_categories(doc.elements)
    /\ sheet_classes' = count_sheet_classes(doc.sheets, SHEET_KEYWORDS)
    /\ pc' = "topcats_run"
    /\ UNCHANGED <<script, run_stamp, runs, io, popup, doc, idx, files, open_files, ok, skipped, type_params_cache,
                   hierarchy, printed>>
    /\ UNCHANGED <<clsVars, valVars>>

\* write_topcats(path): the whole file is written and closed
write_topcats(fs, path) ==
    fwrite_all(fwrite(write_bom_csv(fs, path), path, TOPCATS_HEADER), path,
        LET mc == most_common(counter, TOP_N)
        IN  [n \in 1..Len(mc) |->
                Row(<<"model", itoa(Len(doc.elements)), mc[n][1], itoa(mc[n][2])>>)])

\* lines 251-252: write_topcats(out_topcats); write_topcats(out_topcats_latest)
ResumoWriteTopcats(dir) ==
    /\ script = "ResumoModelo"
    /\ pc = (IF dir = RUN_DIR THEN "topcats_run" ELSE "topcats_latest")
    /\ files' = write_topcats(files, <<dir, "top_categorias.csv">>)
    /\ pc' = (IF dir = RUN_DIR THEN "topcats_latest" ELSE "sheets_run")
    /\ UNCHANGED <<script, run_stamp, runs, io, popup, doc, idx, open_files, ok, skipped, type_params_cache,
                   hierarchy, counter, sheet_classes, printed>>
    /\ UNCHANGED <<clsVars, valVars>>

\* lines 260-262 of write_sheets(path): the file is opened, BOM and header
ResumoSheetsOpen(dir) ==
    /\ script = "ResumoModelo"
    /\ pc = (IF dir = RUN_DIR THEN "sheets_run" ELSE "sheets_latest")
    /\ files' = fwrite(write_bom_csv(files, <<dir, "folhas_resumo.csv">>),
                       <<dir, "folhas_resumo.csv">>, SHEETS_HEADER)
    /\ open_files' = open_files \cup {<<dir, "folhas_resumo.csv">>}
    /\ idx' = 1
    /\ pc' = (IF dir = RUN_DIR THEN "rows_run" ELSE "rows_latest")
    /\ UNCHANGED <<script, run_stamp, runs, io, popup, doc, ok, skipped, type_params_cache, hierarchy, counter,
                   sheet_classes, printed>>
    /\ UNCHANGED <<clsVars, valVars>>

\* the row of folhas_resumo.csv
sheet_row(s) == Row(<<"model", u8(s.SheetNumber), u8(s.Name),
                      u8(classify_sheet(s, SHEET_KEYWORDS))>>)

\* lines 263-267 of write_sheets(path): one sheet, with its try/except
ResumoSheetRow(dir) ==
    /\ script = "ResumoModelo"
    /\ pc = (IF dir = RUN_DIR THEN "rows_run" ELSE "rows_latest")
    /\ idx <= Len(doc.sheets)
    /\ files' = IF sheet_unreadable(doc.sheets[idx]) THEN files
                ELSE fwrite(files, <<dir, "folhas_resumo.csv">>,
                            sheet_row(doc.sheets[idx]))
    /\ idx' = idx + 1
    /\ UNCHANGED <<script, run_stamp, runs, io, popup, pc, doc, open_files, ok, skipped, type_params_cache,
                   hierarchy, counter, sheet_classes, printed>>
    /\ UNCHANGED <<clsVars, valVars>>

\* line 268 of write_sheets(path): f.close()
ResumoSheetsClose(dir) ==
    /\ script = "ResumoModelo"
    /\ pc = (IF dir = RUN_DIR THEN "rows_run" ELSE "rows_latest")
    /\ idx > Len(doc.sheets)
    /\ open_files' = open_files \ {<<dir, "folhas_resumo.csv">>}
    /\ pc' = (IF dir = RUN_DIR THEN "sheets_latest" ELSE "json_run")
    /\ UNCHANGED <<script, run_stamp, runs, io, popup, doc, idx, files, ok, skipped, type_params_cache, hierarchy,
                   counter, sheet_classes, printed>>
    /\ UNCHANGED <<clsVars, valVars>>

\* profile
profile == [model |-> "model", run_stamp |-> "run_stamp",
            total_elements |-> Len(doc.elements),
            unique_categories |-> Cardinality(DOMAIN counter),
            top_categories |-> most_common(counter, TOP_N),
            total_sheets |-> Len(doc.sheets),
            sheet_classes |-> sheet_classes]

\* lines 305-306: write_json(out_json); write_json(out_json_latest)
ResumoWriteJson(dir) ==
    /\ script = "ResumoModelo"
    /\ pc = (IF dir = RUN_DIR THEN "json_run" ELSE "json_latest")
    /\ files' = write_json(files, <<dir, "model_profile.json">>, profile)
    /\ pc' = (IF dir = RUN_DIR THEN "json_latest" ELSE "summary")
    /\ UNCHANGED <<script, run_stamp, runs, io, popup, doc, idx, open_files, ok, skipped, type_params_cache,
                   hierarchy, counter, sheet_classes, printed>>
    /\ UNCHANGED <<clsVars, valVars>>

(***************************************************************************)
(* ValidarLayout.                                                          *)
(***************************************************************************)
CAT_ELETRICA ==
    {"Lumina/rias", "Dispositivos ele/tricos", "Equipamentos ele/tricos",
     "Circuitos ele/tricos", "Identificadores de lumina/ria",
     "Identificadores de dispositivos ele/tricos"}

CAT_INFRA ==
    {"Conduites", "Conexo~es do conduite", "Fiac,a~o", "Bandejas de cabos",
     "Conexo~es da bandeja de cabos", "Eletrocalhas", "Conexo~es da eletrocalha"}

KW_SEG == << <<"C","F","T","V">>, <<"C","A","M","E","R","A">>,
             <<"C","A^","M","E","R","A">>, <<"A","L","A","R","M","E">>,
             <<"A","L","A","R","M">>, <<"A","C","E","S","S","O">>,
             <<"A","C","C","E","S","S">>, <<"S","E","N","S","O","R">>,
             <<"D","E","T","E","C","T">> >>

\* counters that take only the sheets whose label is the discipline alone
sheets_of_exact(classes, disc) == IF disc \in DOMAIN classes THEN classes[disc] ELSE 0
\* lines 249-256: the sheets of the classes whose label contains disc
RECURSIVE sheets_of(_, _)
sheets_of(classes, disc) ==
    IF DOMAIN classes = {} THEN 0
    ELSE LET k == CHOOSE k \in DOMAIN classes : TRUE
         IN  (IF IsIn(disc, k) THEN classes[k] ELSE 0)
             + sheets_of([x \in DOMAIN classes \ {k} |-> classes[x]], disc)

\* lines 280-286: the family and type name hold a security keyword
is_seg(el) ==
    LET ft   == get_family_type(el)
        text == norm_upper_v(ft[1] \o <<" ">> \o ft[2])
    IN  \E n \in 1..Len(KW_SEG) : IsIn(KW_SEG[n], text)

\* an element scan without the "break": one more for every keyword that matches
RECURSIVE count_elements_per_keyword(_)
count_elements_per_keyword(els) ==
    IF els = <<>> THEN [count_eletrica |-> 0, count_infra |-> 0, count_seg |-> 0]
    ELSE LET n  == Len(els)
             el == els[n]
             c  == count_elements_per_keyword(SubSeq(els, 1, n - 1))
             ft == get_family_type(el)
             text == norm_upper_v(ft[1] \o <<" ">> \o ft[2])
         IN  IF el.fault = "category" THEN c
             ELSE [count_eletrica |-> c.count_eletrica
                                      + (IF el.cat \in CAT_ELETRICA THEN 1 ELSE 0),
                   count_infra    |-> c.count_infra
                                      + (IF el.cat \in CAT_INFRA THEN 1 ELSE 0),
                   count_seg      |-> c.count_seg
                       + Cardinality({k \in 1..Len(KW_SEG) : IsIn(KW_SEG[k], text)})]
\* lines 264-289: the three element counters, errors passed over
RECURSIVE count_elements(_)
count_elements(els) ==
    IF els = <<>> THEN [count_eletrica |-> 0, count_infra |-> 0, count_seg |-> 0]
    ELSE LET n  == Len(els)
             el == els[n]
             c  == count_elements(SubSeq(els, 1, n - 1))
         IN  IF el.fault = "category" THEN c
             ELSE [count_eletrica |-> c.count_eletrica
                                      + (IF el.cat \in CAT_ELETRICA THEN 1 ELSE 0),
                   count_infra    |-> c.count_infra
                                      + (IF el.cat \in CAT_INFRA THEN 1 ELSE 0),
                   count_seg      |-> c.count_seg + (IF is_seg(el) THEN 1 ELSE 0)]

\* lines 239-289: sheet_classes and the six counters are computed
ValidarCount ==
    /\ script = "ValidarLayout" /\ pc = "start"
    /\ LET classes == count_sheet_classes(doc.sheets, SHEET_RULES)
           c       == count_elements(doc.elements)
       IN  /\ sheet_classes' = classes
           /\ cnt' = [s_ele |-> sheets_of(classes, ELETRICA),
                      s_inf |-> sheets_of(classes, INFRA),
                      s_seg |-> sheets_of(classes, SEGURANCA),
                      count_eletrica |-> c.count_eletrica,
                      count_infra |-> c.count_infra,
                      count_seg |-> c.count_seg]
    /\ pc' = "validate"
    /\ UNCHANGED <<script, run_stamp, runs, io, popup, doc, idx, files, open_files, ok, skipped, type_params_cache,
                   hierarchy, counter, printed>>
    /\ UNCHANGED <<clsVars, mins, issues, warns, approved>>

\* lines 295-322: issues, warns and approved
ValidarValidate ==
    /\ script = "ValidarLayout" /\ pc = "validate"
    /\ issues' = issues_of(cnt, mins)
    /\ warns' = warns_of(cnt)
    /\ approved' = approved_of(issues_of(cnt, mins))
    /\ pc' = "csv_run"
    /\ UNCHANGED <<script, run_stamp, runs, io, popup, doc, idx, files, open_files, ok, skipped, type_params_cache,
                   hierarchy, counter, sheet_classes, printed>>
    /\ UNCHANGED <<clsVars, cnt, mins>>

VALIDATION_HEADER == Header(<<"model", "run_stamp", "tipo", "disciplina", "valor",
                              "minimo", "status", "mensagem">>)

\* a threshold row that reports PASS whatever the comparison says
threshold_row_always_pass(tipo, disc, val, min, pass, msg) ==
    Row(<<"model", "run_stamp", tipo, disc, itoa(val), itoa(min), "PASS", "">>)
\* one threshold row of validacao_layout.csv
threshold_row(tipo, disc, val, min, pass, msg) ==
    Row(<<"model", "run_stamp", tipo, disc, itoa(val), itoa(min),
          IF pass THEN "PASS" ELSE "FAIL", IF pass THEN "" ELSE msg>>)

\* the rows of validacao_layout.csv after the header
validation_rows ==
    << threshold_row("sheets", "ELETRICA", cnt.s_ele, mins.sheets_ele,
                     cnt.s_ele >= mins.sheets_ele,
                     "Folhas Eletrica abaixo do minimo."),
       threshold_row("sheets", "INFRA", cnt.s_inf, mins.sheets_inf,
                     cnt.s_inf >= mins.sheets_inf,
                     "Folhas Infra abaixo do minimo."),
       threshold_row("sheets", "SEGURANCA", cnt.s_seg, mins.sheets_seg,
                     cnt.s_seg >= mins.sheets_seg,
                     "Folhas Seguranca abaixo do minimo."),
       threshold_row("elements", "ELETRICA", cnt.count_eletrica, mins.elems_ele,
                     cnt.count_eletrica >= mins.elems_ele,
                     "Elementos Eletrica abaixo do minimo."),
       threshold_row("elements", "INFRA", cnt.count_infra, mins.elems_inf,
                     cnt.count_infra >= mins.elems_inf,
                     "Elementos Infra abaixo do minimo."),
       threshold_row("elements", "SEGURANCA", cnt.count_seg, mins.elems_seg,
                     mins.elems_seg = 0 \/ cnt.count_seg >= mins.elems_seg,
                     "Seguranca abaixo do minimo.") >>
    \o [n \in 1..Len(warns) |->
          Row(<<"model", "run_stamp", "warn", "CONSISTENCIA", <<>>, <<>>, "WARN",
                warns[n]>>)]

\* write_validation_csv(path): the whole file is written and closed
write_validation_csv(fs, path) ==
    fwrite_all(fwrite(write_bom_csv(fs, path), path, VALIDATION_HEADER),
               path, validation_rows)

\* lines 374-375: write_validation_csv(out_csv); write_validation_csv(out_csv_latest)
ValidarWriteCsv(dir) ==
    /\ script = "ValidarLayout"
    /\ pc = (IF dir = RUN_DIR THEN "csv_run" ELSE "csv_latest")
    /\ files' = write_validation_csv(files, <<dir, "validacao_layout.csv">>)
    /\ pc' = (IF dir = RUN_DIR THEN "csv_latest" ELSE "json_run")
    /\ UNCHANGED <<script, run_stamp, runs, io, popup, doc, idx, open_files, ok, skipped, type_params_cache,
                   hierarchy, counter, sheet_classes, printed>>
    /\ UNCHANGED <<clsVars, valVars>>

\* result
result == [model |-> "model", run_stamp |-> "run_stamp", approved |-> approved,
           sheets |-> [eletrica |-> cnt.s_ele, infra |-> cnt.s_inf,
                       seguranca |-> cnt.s_seg, by_class |-> sheet_classes],
           elements |-> [eletrica |-> cnt.count_eletrica, infra |-> cnt.count_infra,
                         seguranca |-> cnt.count_seg],
           issues |-> issues, warns |-> warns]

\* lines 415-416: write_json(out_json); write_json(out_json_latest)
ValidarWriteJson(dir) ==
    /\ script = "ValidarLayout"
    /\ pc = (IF dir = RUN_DIR THEN "json_run" ELSE "json_latest")
    /\ files' = write_json(files, <<dir, "validacao_layout.json">>, result)
    /\ pc' = (IF dir = RUN_DIR THEN "json_latest" ELSE "summary")
    /\ UNCHANGED <<script, run_stamp, runs, io, popup, doc, idx, open_files, ok, skipped, type_params_cache,
                   hierarchy, counter, sheet_classes, printed>>
    /\ UNCHANGED <<clsVars, valVars>>

\* a popup that never shows the warning icon
ValidarPopup_no_icon ==
    /\ script = "ValidarLayout" /\ pc = "popup"
    /\ popup' = Append(popup,
          [title     |-> IF approved THEN "APROVADO" ELSE "NAO APROVADO",
           status    |-> IF approved THEN "Status: APROVADO" ELSE "Status: NAO APROVADO",
           failures  |-> IF approved THEN <<>> ELSE <<"Falhas:">> \o issues,
           warnings  |-> IF warns # <<>> THEN <<"Avisos:">> \o warns ELSE <<>>,
           saved_in  |-> LATEST_DIR,
           warn_icon |-> FALSE])
    /\ pc' = "done"
    /\ UNCHANGED <<script, run_stamp, runs, io, doc, idx, files, open_files, ok, skipped,
                   type_params_cache, hierarchy, counter, sheet_classes, printed>>
    /\ UNCHANGED <<clsVars, valVars>>

\* lines 468-498: the popup with the verdict: forms.alert(msg, title=title,
\* warn_icon=(not approved)); msg holds the status line, the failures when the
\* model is not approved, the warnings when there are any, and LATEST_DIR
ValidarPopup ==
    /\ script = "ValidarLayout" /\ pc = "popup"
    /\ popup' = Append(popup,
          [title     |-> IF approved THEN "APROVADO" ELSE "NAO APROVADO",
           status    |-> IF approved THEN "Status: APROVADO" ELSE "Status: NAO APROVADO",
           failures  |-> IF approved THEN <<>> ELSE <<"Falhas:">> \o issues,
           warnings  |-> IF warns # <<>> THEN <<"Avisos:">> \o warns ELSE <<>>,
           saved_in  |-> LATEST_DIR,
           warn_icon |-> ~approved])
    /\ pc' = "done"
    /\ UNCHANGED <<script, run_stamp, runs, io, doc, idx, files, open_files, ok, skipped,
                   type_params_cache, hierarchy, counter, sheet_classes, printed>>
    /\ UNCHANGED <<clsVars, valVars>>

(***************************************************************************)
(* Extrair Metadados.                                                      *)
(***************************************************************************)
META_HEADER == Header(<<"model", "run_stamp", "sheet_number", "sheet_name", "sheet_id",
                        "view_id", "view_name", "view_type", "view_discipline",
                        "view_scale", "is_template">>)

\* lines 136-157: both CSV files are opened and get BOM and header
MetadadosOpen ==
    /\ script = "Metadados" /\ pc = "start"
    /\ files' =
         LET f1 == write_bom_csv(files, <<RUN_DIR, "sheets_views.csv">>)
             f2 == write_bom_csv(f1, <<LATEST_DIR, "sheets_views.csv">>)
             f3 == fwrite(f2, <<RUN_DIR, "sheets_views.csv">>, META_HEADER)
         IN  fwrite(f3, <<LATEST_DIR, "sheets_views.csv">>, META_HEADER)
    /\ open_files' = open_files \cup
         {<<RUN_DIR, "sheets_views.csv">>, <<LATEST_DIR, "sheets_views.csv">>}
    /\ pc' = "loop"
    /\ idx' = 1
    /\ UNCHANGED <<script, run_stamp, runs, io, popup, doc, ok, skipped, type_params_cache, hierarchy, counter,
                   sheet_classes, printed>>
    /\ UNCHANGED <<clsVars, valVars>>

\* the row of sheets_views.csv for viewport n of sheet i
pair_row(s, i, n) ==
    Row(<<"model", "run_stamp", u8(s.SheetNumber), u8(s.Name), <<"sheet", i>>,
          <<"view", i, n>>, u8(s.vports[n].view_name), "FloorPlan", "Electrical",
          "50", "0">>)

\* every pair is written, whatever its reads do
pair_ok_always(s, n) == TRUE
\* the pair (sheet, viewport n) is written
pair_ok(s, n) == ~s.vports[n].bad /\ ~sheet_unreadable(s)

\* lines 168-217: the inner loop over the viewports of one sheet
RECURSIVE write_pairs(_, _, _, _)
write_pairs(fs, s, i, n) ==
    IF n > Len(s.vports) THEN fs
    ELSE IF pair_ok(s, n)
    THEN write_pairs(fwrite(fwrite(fs, <<RUN_DIR, "sheets_views.csv">>, pair_row(s, i, n)),
                            <<LATEST_DIR, "sheets_views.csv">>, pair_row(s, i, n)),
                     s, i, n + 1)
    ELSE write_pairs(fs, s, i, n + 1)

\* lines 163-220: one sheet, with the try/except of the sheet and of each pair
MetadadosSheet ==
    /\ script = "Metadados" /\ pc = "loop" /\ idx <= Len(doc.sheets)
    /\ LET s    == doc.sheets[idx]
           good == {n \in 1..Len(s.vports) : pair_ok(s, n)}
       IN  IF s.fault = "viewports"
           THEN /\ skipped' = skipped + 1
                /\ UNCHANGED <<files, ok>>
           ELSE /\ files' = write_pairs(files, s, idx, 1)
                /\ ok' = ok + Cardinality(good)
                /\ skipped' = skipped + (Len(s.vports) - Cardinality(good))
    /\ idx' = idx + 1
    /\ UNCHANGED <<script, run_stamp, runs, io, popup, pc, doc, open_files, type_params_cache, hierarchy, counter,
                   sheet_classes, printed>>
    /\ UNCHANGED <<clsVars, valVars>>

\* lines 222-223: both CSV files are closed
MetadadosClose ==
    /\ script = "Metadados" /\ pc = "loop" /\ idx > Len(doc.sheets)
    /\ open_files' = open_files \
         {<<RUN_DIR, "sheets_views.csv">>, <<LATEST_DIR, "sheets_views.csv">>}
    /\ pc' = "summary"
    /\ UNCHANGED <<script, run_stamp, runs, io, popup, doc, idx, files, ok, skipped, type_params_cache, hierarchy,
                   counter, sheet_classes, printed>>
    /\ UNCHANGED <<clsVars, valVars>>

(***************************************************************************)
(* TestAPI.                                                                *)
(***************************************************************************)
TOP_N_CATS == 20

\* one host record other than an element or a sheet: a level, a workset, a
\* warning, a link, a phase or a design option; bad: reading it raises
Record(class, bad) == [class |-> class, bad |-> bad]
RecordKinds ==
    {Record(c, b) : c \in {"level", "workset", "warning", "link", "phase", "design_option"},
                    b \in BOOLEAN}

\* the records of one class, and whether reading one of them raises
of_class(recs, c) == SelectSeq(recs, LAMBDA r : r.class = c)
any_bad(recs, c) == \E n \in 1..Len(recs) : recs[n].class = c /\ recs[n].bad

\* a section of the diagnosis that no try/except protects: an error of one
\* record ends the script
TestApiUnguarded(class, from, to) ==
    /\ script = "TestAPI" /\ pc = from
    /\ pc' = (IF any_bad(doc.records, class) THEN "aborted" ELSE to)
    /\ UNCHANGED <<script, run_stamp, runs, io, popup, doc, idx, files, open_files, ok, skipped, type_params_cache,
                   hierarchy, counter, sheet_classes, printed>>
    /\ UNCHANGED <<clsVars, valVars>>

\* a section of the diagnosis whose errors are caught
TestApiGuarded(from, to) ==
    /\ script = "TestAPI" /\ pc = from
    /\ pc' = to
    /\ UNCHANGED <<script, run_stamp, runs, io, popup, doc, idx, files, open_files, ok, skipped, type_params_cache,
                   hierarchy, counter, sheet_classes, printed>>
    /\ UNCHANGED <<clsVars, valVars>>

\* lines 218-233: the levels are sorted by elevation and tabulated
TestApiLevels == TestApiUnguarded("level", "start", "worksets")
\* lines 244-269: the worksets, inside one try/except
TestApiWorksets == TestApiGuarded("worksets", "warnings")
\* lines 280-300: the warnings, each inside a try/except
TestApiWarnings == TestApiGuarded("warnings", "links")
\* lines 311-325: the links; the except branch reads the name again
TestApiLinks == TestApiUnguarded("link", "links", "phases")
\* lines 335-340: the phases
TestApiPhases == TestApiUnguarded("phase", "phases", "design_options")
\* lines 350-356: the design options
TestApiDesignOptions == TestApiUnguarded("design_option", "design_options", "categories")

\* lines 366-394: the elements are counted by category, errors passed over
TestApiCategories ==
    /\ script = "TestAPI" /\ pc = "categories"
    /\ counter' = count_categories(doc.elements)
    /\ pc' = "csv"
    /\ UNCHANGED <<script, run_stamp, runs, io, popup, doc, idx, files, open_files, ok, skipped, type_params_cache,
                   hierarchy, sheet_classes, printed>>
    /\ UNCHANGED <<clsVars, valVars>>

CATS_HEADER == Header(<<"run_stamp", "model", "categoria", "quantidade">>)

\* lines 410-415: each row goes to both files before the next row
RECURSIVE write_cats(_, _)
write_cats(fs, mc) ==
    IF mc = <<>> THEN fs
    ELSE LET row == Row(<<"run_stamp", "model", Head(mc)[1], itoa(Head(mc)[2])>>)
         IN  write_cats(fwrite(fwrite(fs, <<RUN_DIR, "categorias.csv">>, row),
                               <<LATEST_DIR, "categorias.csv">>, row),
                        Tail(mc))

\* lines 400-417: categorias.csv is written to both directories and closed
TestApiCsv ==
    /\ script = "TestAPI" /\ pc = "csv"
    /\ files' =
         LET f1 == write_bom_csv(files, <<RUN_DIR, "categorias.csv">>)
             f2 == write_bom_csv(f1, <<LATEST_DIR, "categorias.csv">>)
             f3 == fwrite(f2, <<RUN_DIR, "categorias.csv">>, CATS_HEADER)
             f4 == fwrite(f3, <<LATEST_DIR, "categorias.csv">>, CATS_HEADER)
         IN  write_cats(f4, most_common_all(counter))
    /\ pc' = "json_run"
    /\ UNCHANGED <<script, run_stamp, runs, io, popup, doc, idx, open_files, ok, skipped, type_params_cache,
                   hierarchy, counter, sheet_classes, printed>>
    /\ UNCHANGED <<clsVars, valVars>>

\* fingerprint
fingerprint ==
    [run_stamp |-> "run_stamp", model |-> "model",
     stats |-> [total_elements |-> Len(doc.elements),
                unique_categories |-> Cardinality(DOMAIN counter),
                levels_count |-> Len(of_class(doc.records, "level")),
                links_count |-> Len(of_class(doc.records, "link")),
                phases_count |-> Len(of_class(doc.records, "phase")),
                warnings_count |-> Len(of_class(doc.records, "warning")),
                design_options_count |-> Len(of_class(doc.records, "design_option"))],
     top_categories |-> most_common(counter, TOP_N_CATS)]

\* lines 497-509: one pass of "for path in [out_fingerprint, out_fp_lat]";
\* the file gets the bytes of json.dumps and nothing before them
TestApiWriteJson(dir) ==
    /\ script = "TestAPI"
    /\ pc = (IF dir = RUN_DIR THEN "json_run" ELSE "json_latest")
    /\ files' = fwrite(fopen(files, <<dir, "model_fingerprint.json">>),
                       <<dir, "model_fingerprint.json">>, Json(fingerprint))
    /\ pc' = (IF dir = RUN_DIR THEN "json_latest" ELSE "summary")
    /\ UNCHANGED <<script, run_stamp, runs, io, popup, doc, idx, open_files, ok, skipped, type_params_cache,
                   hierarchy, counter, sheet_classes, printed>>
    /\ UNCHANGED <<clsVars, valVars>>

(***************************************************************************)
(* One run of one script on one document.                                  *)
(***************************************************************************)
Scripts == {"ResumoModelo", "ValidarLayout", "Completo", "Rapido", "Metadados", "TestAPI"}

\* The documents a script is run on: the collections the script reads.  The
\* validator runs with its minimums as shipped or with them all set to zero
\* (they are the configuration constants at the top of the script).
Docs(s) ==
    CASE s \in {"Completo", "Rapido"} ->
           [elements : SeqsUpTo(ElementKinds, MaxElems), sheets : {<<>>}, records : {<<>>}]
      [] s \in {"ResumoModelo", "ValidarLayout"} ->
           [elements : SeqsUpTo(ElementKindsAnalysis, MaxElems),
            sheets : SeqsUpTo(SheetKinds, MaxSheets), records : {<<>>}]
      [] s = "Metadados" ->
           [elements : {<<>>}, sheets : SeqsUpTo(SheetKindsMetadados, MaxSheets),
            records : {<<>>}]
      [] s = "TestAPI" ->
           [elements : SeqsUpTo({el \in ElementKindsAnalysis :
                                   el.cat \in {"Conduites", "Luminarias"}}, MaxElems), sheets : {<<>>},
            records : SeqsUpTo(RecordKinds, MaxRecs)]

Init ==
    /\ script \in Scripts
    /\ doc \in Docs(script)
    /\ pc = "start"
    /\ idx = 1
    /\ files = <<>>
    /\ open_files = {}
    /\ ok = 0
    /\ skipped = 0
    /\ type_params_cache = <<>>
    /\ hierarchy = <<>>
    /\ counter = <<>>
    /\ sheet_classes = <<>>
    /\ printed = FALSE
    /\ run_stamp = 1
    /\ runs = 1
    /\ io = "none"
    /\ popup = <<>>
    /\ sh = NoSheet
    /\ rules = SHEET_KEYWORDS
    /\ label = <<>>
    /\ label_v = <<>>
    /\ stage = "idle"
    /\ cnt = NoCounters
    /\ mins \in (IF script = "ValidarLayout"
                 THEN {ShippedMins, [k \in DOMAIN ShippedMins |-> 0]}
                 ELSE {ShippedMins})
    /\ issues = <<>>
    /\ warns = <<>>
    /\ approved = FALSE

Next ==
    \/ CompletoOpen
    \/ CompletoElement
    \/ CompletoClose
    \/ \E dir \in {RUN_DIR, LATEST_DIR} : CompletoWriteJson(dir)
    \/ RapidoOpen
    \/ RapidoElement
    \/ RapidoClose
    \/ ResumoCollect
    \/ \E dir \in {RUN_DIR, LATEST_DIR} : ResumoWriteTopcats(dir)
    \/ \E dir \in {RUN_DIR, LATEST_DIR} : ResumoSheetsOpen(dir)
    \/ \E dir \in {RUN_DIR, LATEST_DIR} : ResumoSheetRow(dir)
    \/ \E dir \in {RUN_DIR, LATEST_DIR} : ResumoSheetsClose(dir)
    \/ \E dir \in {RUN_DIR, LATEST_DIR} : ResumoWriteJson(dir)
    \/ ValidarCount
    \/ ValidarValidate
    \/ \E dir \in {RUN_DIR, LATEST_DIR} : ValidarWriteCsv(dir)
    \/ \E dir \in {RUN_DIR, LATEST_DIR} : ValidarWriteJson(dir)
    \/ ValidarPopup
    \/ MetadadosOpen
    \/ MetadadosSheet
    \/ MetadadosClose
    \/ TestApiLevels
    \/ TestApiWorksets
    \/ TestApiWarnings
    \/ TestApiLinks
    \/ TestApiPhases
    \/ TestApiDesignOptions
    \/ TestApiCategories
    \/ TestApiCsv
    \/ \E dir \in {RUN_DIR, LATEST_DIR} : TestApiWriteJson(dir)
    \/ Summary

Spec == Init /\ [][Next]_vars

(***************************************************************************)
(* A sequence of runs on one model: each run is one of the six scripts,    *)
(* the files of the earlier runs stay on the disk.                         *)
(***************************************************************************)
\* the documents of the runs of a sequence: for each script the empty
\* document and documents with one record of each collection the script reads
RunDocs(s) ==
    LET els   == {el \in ElementKinds : el.cat = "Luminarias" /\ Len(el.params) = 1
                                          /\ el.fault \in {"none", "parameters"}}
        cond  == {el \in ElementKindsAnalysis : el.cat = "Conduites"}
        quad  == {sht \in SheetKinds : sht.fault = "none" /\ Len(sht.vports) = 2}
    IN  CASE s \in {"Completo", "Rapido"} ->
               [elements : SeqsUpTo(els, 1), sheets : {<<>>}, records : {<<>>}]
          [] s \in {"ResumoModelo", "ValidarLayout"} ->
               [elements : SeqsUpTo(cond, 1), sheets : SeqsUpTo(quad, 1), records : {<<>>}]
          [] s = "Metadados" ->
               [elements : {<<>>}, sheets : SeqsUpTo(quad, 1), records : {<<>>}]
          [] s = "TestAPI" ->
               [elements : {<<>>}, sheets : {<<>>},
                records : SeqsUpTo({Record("level", b) : b \in BOOLEAN}, 1)]

\* the first run of the sequence begins, the disk holds no file
InitRuns ==
    /\ script \in Scripts
    /\ doc \in RunDocs(script)
    /\ pc = "start"
    /\ idx = 1
    /\ files = <<>>
    /\ open_files = {}
    /\ ok = 0
    /\ skipped = 0
    /\ type_params_cache = <<>>
    /\ hierarchy = <<>>
    /\ counter = <<>>
    /\ sheet_classes = <<>>
    /\ printed = FALSE
    /\ run_stamp = 1
    /\ runs = 1
    /\ io = "none"
    /\ popup = <<>>
    /\ sh = NoSheet
    /\ rules = SHEET_KEYWORDS
    /\ label = <<>>
    /\ label_v = <<>>
    /\ stage = "idle"
    /\ cnt = NoCounters
    /\ mins = ShippedMins
    /\ issues = <<>>
    /\ warns = <<>>
    /\ approved = FALSE

\* The top of a script: datetime.now() is read and formatted to the second,
\* the two directories are created when they do not exist, the variables of
\* the script have their first values.  The clock has second resolution and
\* is the local time: the run that follows another may read the same second.
StartRun ==
    /\ pc \in {"done", "aborted"}
    /\ runs < MaxRuns
    /\ runs' = runs + 1
    /\ run_stamp' \in {run_stamp, run_stamp + 1}
    /\ script' \in Scripts
    /\ doc' \in RunDocs(script')
    /\ pc' = "start"
    /\ idx' = 1
    /\ open_files' = {}
    /\ ok' = 0
    /\ skipped' = 0
    /\ type_params_cache' = <<>>
    /\ hierarchy' = <<>>
    /\ counter' = <<>>
    /\ sheet_classes' = <<>>
    /\ printed' = FALSE
    /\ io' = "none"
    /\ popup' = <<>>
    /\ cnt' = NoCounters
    /\ issues' = <<>>
    /\ warns' = <<>>
    /\ approved' = FALSE
    /\ UNCHANGED <<files, mins, clsVars>>

SpecRuns == InitRuns /\ [][Next \/ StartRun]_vars

(***************************************************************************)
(* One run on a disk whose operations can fail.                            *)
(***************************************************************************)
\* an I/O error outside every try block that the script would pass over
IoFailure_passed_over ==
    /\ script # "none"
    /\ pc \in {"start", "topcats_run", "topcats_latest", "sheets_run", "sheets_latest",
               "csv_run", "csv_latest", "csv", "json_run", "json_latest"}
    /\ io' = "uncaught"
    /\ UNCHANGED <<script, run_stamp, runs, popup, pc, doc, idx, files, open_files, ok,
                   skipped, type_params_cache, hierarchy, counter, sheet_classes, printed>>
    /\ UNCHANGED <<clsVars, valVars>>

\* An I/O error raised outside every try block ends the script: os.makedirs
\* at the top of the script, open(path, "wb"), the write of a BOM, of a
\* header, of a row or of a JSON document by a writer that has no try block,
\* and close.  The file the step was about to write is left as it was, or is
\* left created and empty when the error comes after its open.
IoFailure ==
    /\ script # "none"
    /\ \/ pc \in {"start", "topcats_run", "topcats_latest", "sheets_run", "sheets_latest",
                  "csv_run", "csv_latest", "csv", "json_run", "json_latest"}
       \/ pc = "loop" /\ idx > Len(IF script = "Metadados" THEN doc.sheets ELSE doc.elements)
       \/ pc \in {"rows_run", "rows_latest"} /\ idx > Len(doc.sheets)
    /\ LET dir  == IF pc \in {"topcats_latest", "sheets_latest", "csv_latest", "json_latest"}
                   THEN LATEST_DIR ELSE RUN_DIR
           name == CASE pc \in {"topcats_run", "topcats_latest"} -> "top_categorias.csv"
                     [] pc \in {"sheets_run", "sheets_latest"}   -> "folhas_resumo.csv"
                     [] pc \in {"csv_run", "csv_latest"}         -> "validacao_layout.csv"
                     [] pc = "csv"                               -> "categorias.csv"
                     [] pc \in {"json_run", "json_latest"} ->
                          (CASE script = "ResumoModelo"  -> "model_profile.json"
                             [] script = "ValidarLayout" -> "validacao_layout.json"
                             [] script = "Completo"      -> "model_hierarchy.json"
                             [] OTHER                    -> "model_fingerprint.json")
                     [] OTHER -> "none"
       IN  \/ files' = files
           \/ name # "none" /\ files' = fopen(files, <<dir, name>>)
    /\ pc' = "aborted"
    /\ io' = "uncaught"
    /\ UNCHANGED <<script, run_stamp, runs, popup, doc, idx, open_files, ok, skipped,
                   type_params_cache, hierarchy, counter, sheet_classes, printed>>
    /\ UNCHANGED <<clsVars, valVars>>

\* An I/O error raised inside a try block is caught and the script goes on:
\* the writerow of an element row (Completo 571-572, Rapido 382-383), of a
\* sheet-view pair (Metadados 211-212) or of a sheet row (ResumoModelo 265),
\* and the write of model_fingerprint.json (TestAPI 505-509), whose except
\* branch opens the file again and writes an error document.
CaughtIoFailure ==
    /\ script # "none"
    /\ \/ /\ script = "Completo" /\ pc = "loop" /\ idx <= Len(doc.elements)
          /\ completo_reached(doc.elements[idx], 571) = TRUE
          /\ files' \in {files, fwrite(files, <<RUN_DIR, "elements.csv">>,
                                       elem_row(doc.elements[idx], idx))}
          /\ type_params_cache' = cache_after(type_params_cache, doc.elements[idx])
          /\ skipped' = skipped + 1
          /\ idx' = idx + 1
          /\ io' = "caught"
          /\ UNCHANGED pc
       \/ /\ script = "Rapido" /\ pc = "loop" /\ idx <= Len(doc.elements)
          /\ ~rapido_ignored(doc.elements[idx])
          /\ rapido_reached(doc.elements[idx], 382) = TRUE
          /\ files' \in {files, fwrite(files, <<RUN_DIR, "elements_rapido.csv">>,
                                       elem_row_rapido(doc.elements[idx], idx))}
          /\ skipped' = skipped + 1
          /\ idx' = idx + 1
          /\ io' = "caught"
          /\ UNCHANGED <<pc, type_params_cache>>
       \/ /\ script = "Metadados" /\ pc = "loop" /\ idx <= Len(doc.sheets)
          /\ doc.sheets[idx].fault # "viewports"
          /\ \E n \in 1..Len(doc.sheets[idx].vports) : pair_ok(doc.sheets[idx], n)
          /\ files' = files
          /\ skipped' = skipped + Len(doc.sheets[idx].vports)
          /\ idx' = idx + 1
          /\ io' = "caught"
          /\ UNCHANGED <<pc, type_params_cache>>
       \/ /\ script = "ResumoModelo" /\ pc \in {"rows_run", "rows_latest"}
          /\ idx <= Len(doc.sheets)
          /\ ~sheet_unreadable(doc.sheets[idx])
          /\ files' = files
          /\ idx' = idx + 1
          /\ io' = "caught"
          /\ UNCHANGED <<pc, skipped, type_params_cache>>
       \/ /\ script = "TestAPI" /\ pc \in {"json_run", "json_latest"}
          /\ LET dir == IF pc = "json_run" THEN RUN_DIR ELSE LATEST_DIR
             IN  files' = fwrite(fopen(files, <<dir, "model_fingerprint.json">>),
                                 <<dir, "model_fingerprint.json">>, Json("error"))
          /\ pc' = (IF pc = "json_run" THEN "json_latest" ELSE "summary")
          /\ io' = "caught"
          /\ UNCHANGED <<idx, skipped, type_params_cache>>
    /\ UNCHANGED <<script, run_stamp, runs, popup, doc, open_files, ok, hierarchy,
                   counter, sheet_classes, printed>>
    /\ UNCHANGED <<clsVars, valVars>>

SpecIO == Init /\ [][Next \/ IoFailure \/ CaughtIoFailure]_vars

(***************************************************************************)
(* Properties of a run: what the files hold.                               *)
(***************************************************************************)
Dirs == {RUN_DIR, LATEST_DIR}
FileNames == {q[2] : q \in DOMAIN files}

\* what was written to the file, nothing when the file was never opened
content(dir, name) == IF <<dir, name>> \in DOMAIN files THEN files[<<dir, name>>] ELSE <<>>

\* the data rows of the file, in the order written
DataRows(dir, name) == SelectSeq(content(dir, name), LAMBDA c : c[1] = "row")

IsPrefix(a, b) == Len(a) <= Len(b) /\ a = SubSeq(b, 1, Len(a))

\* the script has left its last loop and closed its files
RunEnded == pc \in {"summary", "popup", "done"}

\* a record of the current loop has been processed
InRecordLoop == pc \in {"loop", "rows_run", "rows_latest"} /\ idx > 1

CharLen(bytes) == Cardinality({n \in 1..Len(bytes) : bytes[n] # "0xC3"})

\* the limit of the running script
MaxLenOf(s) == IF s = "Rapido" THEN MAX_PARAM_LEN_RAPIDO ELSE MAX_PARAM_LEN

ElementsFile == IF script = "Rapido" THEN "elements_rapido.csv" ELSE "elements.csv"
ParamsFile   == IF script = "Rapido" THEN "params_top.csv" ELSE "params.csv"

\* the cells of the data rows of a file
Cells(dir, name) == {DataRows(dir, name)[n][2] : n \in 1..Len(DataRows(dir, name))}

\* the host parameter a row of the parameter file was written for
SourceParam(cells) ==
    LET el == doc.elements[cells[2][2]]
        ps == IF script = "Completo" /\ cells[4] = "type" THEN el.tparams ELSE el.params
        nm == IF script = "Completo" THEN cells[5] ELSE cells[4]
    IN  ps[CHOOSE n \in 1..Len(ps) : ps[n].name = nm]

\* the value cell of a row of the parameter file
ValueCell(cells) == IF script = "Completo" THEN cells[7] ELSE cells[5]

\* C7 as stated: no text field of any output row is longer than MAX_PARAM_LEN,
\* the family, type and level of an element row included.
C7_NoFieldExceedsMax ==
    script \in {"Completo", "Rapido"} =>
        \A dir \in Dirs :
            /\ \A cells \in Cells(dir, ElementsFile) :
                  /\ CharLen(cells[5]) <= MaxLenOf(script)
                  /\ CharLen(cells[6]) <= MaxLenOf(script)
                  /\ CharLen(cells[7]) <= MaxLenOf(script)
            /\ \A cells \in Cells(dir, ParamsFile) :
                  CharLen(ValueCell(cells)) <= MaxLenOf(script)

\* every value of instance_params and type_params in the hierarchy
HierarchyValues ==
    UNION { UNION { UNION {
        {hierarchy[c].families[f].types[t].type_params[k] :
            k \in DOMAIN hierarchy[c].families[f].types[t].type_params}
        \cup UNION {
            {hierarchy[c].families[f].types[t].instances[n].instance_params[k] :
                k \in DOMAIN hierarchy[c].families[f].types[t].instances[n].instance_params}
            : n \in 1..Len(hierarchy[c].families[f].types[t].instances)}
        : t \in DOMAIN hierarchy[c].families[f].types}
        : f \in DOMAIN hierarchy[c].families}
        : c \in DOMAIN hierarchy}

\* C7 amended: a parameter value longer than the MAX_PARAM_LEN of the script
\* (500 characters in Completo, 300 in Rapido) is written cut to exactly that
\* many characters, a parameter value that is not longer is written unchanged,
\* and no parameter value of a row or of the JSON hierarchy exceeds the limit;
\* the other fields are not cut.
C7_ParamValuesTruncated ==
    script \in {"Completo", "Rapido"} =>
        /\ \A dir \in Dirs : \A cells \in Cells(dir, ParamsFile) :
              LET p == SourceParam(cells)
                  m == MaxLenOf(script)
              IN  /\ CharLen(ValueCell(cells)) <= m
                  /\ Len(p.value) > m =>
                        /\ CharLen(ValueCell(cells)) = m
                        /\ ValueCell(cells) = u8(SubSeq(p.value, 1, m))
                  /\ Len(p.value) <= m => ValueCell(cells) = u8(p.value)
        /\ \A v \in HierarchyValues : Len(v) <= MAX_PARAM_LEN

\* a finished full extraction that wrote a value cut to MAX_PARAM_LEN characters
C7_Witness ==
    /\ script = "Completo" /\ pc = "done"
    /\ \E cells \in Cells(LATEST_DIR, "params.csv") :
          /\ Len(SourceParam(cells).value) > MAX_PARAM_LEN
          /\ CharLen(ValueCell(cells)) = MAX_PARAM_LEN
    /\ \E v \in HierarchyValues : Len(v) = MAX_PARAM_LEN

(***************************************************************************)
(* Properties of a run: errors of single records.                          *)
(***************************************************************************)
\* C8 as stated: in no script does an error raised while reading one host
\* record (element, sheet, viewport, level, phase, link, warning) end the run
\* before its files are written and its summary is printed.
C8_RecordErrorNeverAborts == pc # "aborted"

\* the elements the loop of the extraction has gone through
Processed == {i \in 1..Len(doc.elements) : i < idx}
\* processing the element raises an error
Raised(i) == doc.elements[i].fault # "none"
Extracted == {i \in Processed : ~Raised(i)}

\* the elements that have a row in the file, by position in the document
RowOwners(dir, name) == {cells[3][2] : cells \in Cells(dir, name)}
ParamRowOwners(dir, name) == {cells[2][2] : cells \in Cells(dir, name)}

\* the instances of the hierarchy, by position in the document
HierarchyOwners ==
    UNION { UNION { UNION {
        {hierarchy[c].families[f].types[t].instances[n].unique_id[2] :
            n \in 1..Len(hierarchy[c].families[f].types[t].instances)}
        : t \in DOMAIN hierarchy[c].families[f].types}
        : f \in DOMAIN hierarchy[c].families}
        : c \in DOMAIN hierarchy}

\* the sum of node.total over the nodes of a dictionary
RECURSIVE SumTotals(_)
SumTotals(d) ==
    IF DOMAIN d = {} THEN 0
    ELSE LET k == CHOOSE k \in DOMAIN d : TRUE
         IN  d[k].total + SumTotals([x \in DOMAIN d \ {k} |-> d[x]])

\* the JSON documents written to the file
JsonValues(dir, name) ==
    {content(dir, name)[n][2] :
        n \in {m \in 1..Len(content(dir, name)) : content(dir, name)[m][1] = "json"}}

JsonNames == {"model_profile.json", "validacao_layout.json", "model_hierarchy.json",
              "model_fingerprint.json"}

\* C10 as stated: every JSON file a script has written, in the history and in
\* the latest directory, begins with the UTF-8 byte-order mark.
C10_JsonBeginsWithBOM ==
    \A dir \in Dirs : \A name \in JsonNames :
        content(dir, name) # <<>> => content(dir, name)[1][1] = "BOM"

(***************************************************************************)
(* Properties of a run: the layout of the CSV files.                       *)
(***************************************************************************)
\* the fixed header row of each CSV file, by file name
HeaderOf(name) ==
    CASE name = "elements.csv"         -> ELEM_HEADER
      [] name = "params.csv"           -> PARAM_HEADER
      [] name = "elements_rapido.csv"  -> ELEM_HEADER_RAPIDO
      [] name = "params_top.csv"       -> PARAM_HEADER_RAPIDO
      [] name = "sheets_views.csv"     -> META_HEADER
      [] name = "categorias.csv"       -> CATS_HEADER
      [] name = "top_categorias.csv"   -> TOPCATS_HEADER
      [] name = "folhas_resumo.csv"    -> SHEETS_HEADER
      [] name = "validacao_layout.csv" -> VALIDATION_HEADER

CsvNames == {"elements.csv", "params.csv", "elements_rapido.csv", "params_top.csv",
             "sheets_views.csv", "categorias.csv", "top_categorias.csv",
             "folhas_resumo.csv", "validacao_layout.csv"}

\* C11: at every point of a run, what a CSV file holds begins with the
\* byte-order mark, then the one fixed header row of that file, and everything
\* after the header is a data row: a CSV file that holds a data row holds the
\* BOM and its header as its first content, and holds no second header.
C11_BomThenHeaderThenRows ==
    \A path \in DOMAIN files :
        path[2] \in CsvNames =>
            LET c == files[path]
            IN  /\ Len(c) >= 1 => c[1] = BOM
                /\ Len(c) >= 2 => c[2] = HeaderOf(path[2])
                /\ \A n \in 3..Len(c) : c[n][1] = "row"

\* a CSV file of each directory holds a data row while its script is still
\* inside the loop that writes the rows
C11_Witness ==
    /\ script = "Completo" /\ pc = "loop" /\ idx <= Len(doc.elements)
    /\ Len(DataRows(RUN_DIR, "params.csv")) >= 1
    /\ Len(DataRows(LATEST_DIR, "params.csv")) >= 1

(***************************************************************************)
(* Properties of a sequence of runs: the directories.                      *)
(***************************************************************************)
\* <root>/<model>/<plugin>/<timestamp> and <root>/<model>/latest/<plugin>
HistoryDirOf(s, stamp) == <<"revit_dump", "model", PLUGIN_NAME(s), stamp>>
LatestDirOf(s) == <<"revit_dump", "model", "latest", PLUGIN_NAME(s)>>

\* the names of the files of a directory
NamesIn(dir) == {path[2] : path \in {q \in DOMAIN files : q[1] = dir}}

\* the output files of each script
OutputNames(s) ==
    CASE s = "ResumoModelo"  -> {"top_categorias.csv", "folhas_resumo.csv",
                                 "model_profile.json"}
      [] s = "ValidarLayout" -> {"validacao_layout.csv", "validacao_layout.json"}
      [] s = "Completo"      -> {"elements.csv", "params.csv", "model_hierarchy.json"}
      [] s = "Rapido"        -> {"elements_rapido.csv", "params_top.csv"}
      [] s = "Metadados"     -> {"sheets_views.csv"}
      [] s = "TestAPI"       -> {"categorias.csv", "model_fingerprint.json"}

C13_HistoryDirectoryIsFresh ==
    pc = "start" => NamesIn(HistoryDirOf(script, run_stamp)) = {}

(***************************************************************************)
(* Properties of a run: what a reader of the latest directory can see.     *)
(***************************************************************************)
\* the rows of elements.csv of the elements processed so far, in order
ElementRowsSoFar ==
    LET kept == SelectSeq([i \in 1..(idx - 1) |-> i], LAMBDA i : ~Raised(i))
    IN  [n \in 1..Len(kept) |-> elem_row(doc.elements[kept[n]], kept[n])]

\* C14: the files of the latest directory are written in place, with no lock
\* and no swap of a finished file: a file that is open for writing is the
\* file on the disk, and while the full extraction is inside its loop the
\* elements.csv a reader of latest finds holds the BOM, the header and the
\* rows of the elements processed so far, not the rows still to come.
C14_LatestIsWrittenInPlace ==
    /\ open_files \subseteq DOMAIN files
    /\ (script = "Completo" /\ <<LATEST_DIR, "elements.csv">> \in open_files) =>
          content(LATEST_DIR, "elements.csv") = <<BOM, ELEM_HEADER>> \o ElementRowsSoFar

\* a reader finds a latest elements.csv with one row while the extraction of
\* a document of two elements is between the first and the second
C14_Witness ==
    /\ script = "Completo" /\ pc = "loop" /\ idx = 2 /\ Len(doc.elements) = 2
    /\ ~Raised(1) /\ ~Raised(2)
    /\ <<LATEST_DIR, "elements.csv">> \in open_files
    /\ Len(DataRows(LATEST_DIR, "elements.csv")) = 1

C16_WarningsDoNotBlock ==
    stage = "validated" =>
        /\ approved = (issues = <<>>)
        /\ warns = warns_of(cnt)

\* a model is approved with a warning
C16_Witness ==
    /\ stage = "validated"
    /\ approved
    /\ warns # <<>>

(***************************************************************************)
(* Properties of a run on a disk that can fail.                            *)
(***************************************************************************)
\* C17 as stated: an I/O failure is caught by no script: after a failure to
\* create a directory or to open or write an output file the run is over,
\* without summary and without popup.
C17_IoFailureEndsRun ==
    io # "none" => (pc = "aborted" /\ ~printed /\ popup = <<>>)

\* C17 amended: an I/O failure outside every try block (a directory cannot be
\* created, a file cannot be opened, a BOM, header, JSON document or row of a
\* whole-file writer cannot be written, a file cannot be closed) ends the run
\* at that point, without summary and without popup; an I/O failure inside a
\* try block (the row writes of the record loops, the write of
\* model_fingerprint.json) is caught and the run goes on.
C17_UncaughtIoFailureEndsRun ==
    /\ io = "uncaught" => (pc = "aborted" /\ ~printed /\ popup = <<>>)
    /\ io = "caught" => pc # "aborted"

\* ResumoModelo has written top_categorias.csv to the history directory and
\* is ended by an I/O error after the open of the file of the latest directory
C17_Witness ==
    /\ script = "ResumoModelo" /\ pc = "aborted" /\ io = "uncaught"
    /\ Len(content(RUN_DIR, "top_categorias.csv")) >= 2
    /\ <<LATEST_DIR, "top_categorias.csv">> \in DOMAIN files
    /\ files[<<LATEST_DIR, "top_categorias.csv">>] = <<>>
    /\ NamesIn(RUN_DIR) = {"top_categorias.csv"}

(***************************************************************************)
(* Properties of a run: the summary and the popup.                         *)
(***************************************************************************)
\* the file is on the disk, closed, and holds all its parts: byte-order mark
\* and header for a CSV file, the JSON document for a JSON file
FullyWritten(dir, name) ==
    /\ <<dir, name>> \in DOMAIN files
    /\ <<dir, name>> \notin open_files
    /\ LET c == files[<<dir, name>>]
       IN  IF name \in CsvNames
           THEN Len(c) >= 2 /\ c[1] = BOM /\ c[2] = HeaderOf(name)
                /\ \A n \in 3..Len(c) : c[n][1] = "row"
           ELSE Len(c) >= 1 /\ c[Len(c)][1] = "json"

C19_PopupShowsVerdict ==
    popup # <<>> =>
        LET p == popup[Len(popup)]
        IN  /\ p.title = (IF approved THEN "APROVADO" ELSE "NAO APROVADO")
            /\ p.status = (IF approved THEN "Status: APROVADO"
                           ELSE "Status: NAO APROVADO")
            /\ p.warn_icon = ~approved
            /\ (Len(p.failures) > 0) = ~approved
            /\ ~approved => Tail(p.failures) = issues
            /\ \A dir \in Dirs :
                  /\ content(dir, "validacao_layout.csv") =
                         <<BOM, VALIDATION_HEADER>> \o validation_rows
                  /\ content(dir, "validacao_layout.json") = <<BOM, Json(result)>>

\* the dialog of a model that is not approved, with its failures
C19_Witness ==
    /\ popup # <<>>
    /\ ~approved
    /\ popup[1].warn_icon
    /\ Len(popup[1].failures) >= 3

\* the dialog of an approved model that has a warning
C19_WitnessApproved ==
    /\ popup # <<>>
    /\ approved
    /\ warns # <<>>
    /\ popup[1].title = "APROVADO"

(***************************************************************************)
(* Properties of a sequence of runs: the scripts do not interfere.         *)
(***************************************************************************)
\* the files a step creates, truncates or writes to
Touched == {path \in DOMAIN files' : path \notin DOMAIN files \/ files'[path] # files[path]}

\* the directory is the latest directory or a history directory of script s
DirectoryOf(dir, s) ==
    \/ dir = LatestDirOf(s)
    \/ \E stamp \in 1..MaxRuns : dir = HistoryDirOf(s, stamp)

ValidationFile == "validacao_layout.csv"
ValidationCells(dir) ==
    [n \in 1..Len(DataRows(dir, ValidationFile)) |-> DataRows(dir, ValidationFile)[n][2]]
RuleRows == << <<"sheets", "ELETRICA">>, <<"sheets", "INFRA">>, <<"sheets", "SEGURANCA">>,
               <<"elements", "ELETRICA">>, <<"elements", "INFRA">>,
               <<"elements", "SEGURANCA">> >>

\* C21: a written validacao_layout.csv holds exactly the six rule rows
\* (sheets and elements of ELETRICA, INFRA, SEGURANCA, in that order) and then
\* one WARN row per warning; as many rule rows have status FAIL as issues has
\* messages, approved holds exactly when the six rule rows are PASS, and a
\* rule row has a message exactly when its status is FAIL.
C21_CsvAgreesWithApproval ==
    \A dir \in Dirs :
        <<dir, ValidationFile>> \in DOMAIN files =>
            LET cells == ValidationCells(dir)
            IN  /\ Len(cells) = 6 + Len(warns)
                /\ \A n \in 1..6 :
                      /\ <<cells[n][3], cells[n][4]>> = RuleRows[n]
                      /\ cells[n][7] \in {"PASS", "FAIL"}
                      /\ (cells[n][8] # "") <=> (cells[n][7] = "FAIL")
                /\ \A n \in 7..Len(cells) :
                      /\ cells[n][3] = "warn" /\ cells[n][7] = "WARN"
                      /\ cells[n][8] = warns[n - 6]
                /\ Cardinality({n \in 1..6 : cells[n][7] = "FAIL"}) = Len(issues)
                /\ approved <=> (\A n \in 1..6 : cells[n][7] = "PASS")

\* both files are written, with a rule that passed, a rule that failed and a
\* warning row
C21_Witness ==
    /\ script = "ValidarLayout"
    /\ <<LATEST_DIR, ValidationFile>> \in DOMAIN files
    /\ LET cells == ValidationCells(LATEST_DIR)
       IN  /\ Len(cells) > 6
           /\ \E n \in 1..6 : cells[n][7] = "PASS"
           /\ \E n \in 1..6 : cells[n][7] = "FAIL"
    /\ ~approved

\* the sheets of the document that the validator classified: reading their
\* number and name did not raise
ClassifiedSheets == {n \in 1..Len(doc.sheets) : ~sheet_unreadable(doc.sheets[n])}
\* the classified sheets whose upper-cased text holds a keyword of the list
SheetsMatching(keys) ==
    {n \in ClassifiedSheets :
        \E j \in 1..Len(keys) : IsIn(keys[j], UpperCasedText(doc.sheets[n]))}
\* the classified sheets that carry the label
SheetsLabelled(lab) ==
    {n \in ClassifiedSheets : classify_sheet_v(doc.sheets[n], SHEET_RULES) = lab}

\* C22: when the validator has counted, s_ele, s_inf and s_seg are the numbers
\* of classified sheets whose text matches a keyword of ELETRICA, INFRA and
\* SEGURANCA; a sheet labelled "ELETRICA+INFRA" is counted once in s_ele and
\* once in s_inf, a sheet labelled "OUTROS" in no counter, and no counter
\* exceeds the number of sheets.
C22_SheetCountersFollowLabels ==
    (script = "ValidarLayout" /\ pc = "validate") =>
        LET ele == SheetsMatching(KeysEletrica)
            inf == SheetsMatching(KeysInfra)
            seg == SheetsMatching(KeysSeg)
            lab == [n \in ClassifiedSheets |-> classify_sheet_v(doc.sheets[n], SHEET_RULES)]
        IN  /\ cnt.s_ele = Cardinality(ele)
            /\ cnt.s_inf = Cardinality(inf)
            /\ cnt.s_seg = Cardinality(seg)
            /\ \A n \in ClassifiedSheets :
                  /\ IsIn(ELETRICA, lab[n]) <=> n \in ele
                  /\ IsIn(INFRA, lab[n]) <=> n \in inf
                  /\ IsIn(SEGURANCA, lab[n]) <=> n \in seg
                  /\ lab[n] = OUTROS => n \notin ele \cup inf \cup seg
            /\ cnt.s_ele <= Len(doc.sheets)
            /\ cnt.s_inf <= Len(doc.sheets)
            /\ cnt.s_seg <= Len(doc.sheets)

\* the validator counted two sheets, one of them with the composite label
\* INFRA+SEGURANCA, which adds one to s_inf and one to s_seg
C22_Witness ==
    /\ script = "ValidarLayout" /\ pc = "validate"
    /\ Len(doc.sheets) = 2
    /\ SheetsLabelled(INFRA \o <<"+">> \o SEGURANCA) # {}
    /\ cnt.s_inf = 1 /\ cnt.s_seg = 1 /\ cnt.s_ele = 0

\* the elements of the document whose category the validator could read
CategoryRead == {n \in 1..Len(doc.elements) : doc.elements[n].fault # "category"}
\* the upper-cased family name, a space and the type name of an element
FamilyTypeText(el) ==
    LET t == (IF el.type_id = 0 THEN <<" ">> ELSE el.fam \o <<" ">> \o el.typ)
    IN  [i \in 1..Len(t) |-> upper_char(t[i])]
\* the security keywords that occur in the text of the element
SegKeywordsIn(el) == {k \in SeqToSet(KW_SEG) : IsIn(k, FamilyTypeText(el))}

\* C23: after the validator's element scan, count_eletrica and count_infra are
\* the numbers of elements whose category is in CAT_ELETRICA and in CAT_INFRA;
\* the two sets are disjoint, so the sum of the two counters is at most the
\* number of elements; count_seg is the number of elements whose family and
\* type text holds at least one keyword of KW_SEG, each counted once; an
\* element whose category read raises is counted by none of the three.
C23_ElementCountedOncePerCounter ==
    (script = "ValidarLayout" /\ pc = "validate") =>
        LET read == CategoryRead
        IN  /\ cnt.count_eletrica
                  = Cardinality({n \in read : doc.elements[n].cat \in CAT_ELETRICA})
            /\ cnt.count_infra
                  = Cardinality({n \in read : doc.elements[n].cat \in CAT_INFRA})
            /\ cnt.count_seg
                  = Cardinality({n \in read : SegKeywordsIn(doc.elements[n]) # {}})
            /\ CAT_ELETRICA \cap CAT_INFRA = {}
            /\ cnt.count_eletrica + cnt.count_infra <= Len(doc.elements)
            /\ cnt.count_seg <= Len(doc.elements)

\* the scan met an element in which two security keywords occur and an
\* element with a security keyword whose category read raised
C23_Witness ==
    /\ script = "ValidarLayout" /\ pc = "validate"
    /\ Len(doc.elements) = 2
    /\ \E n \in CategoryRead : Cardinality(SegKeywordsIn(doc.elements[n])) = 2
    /\ \E n \in 1..2 : n \notin CategoryRead /\ SegKeywordsIn(doc.elements[n]) # {}
    /\ cnt.count_seg = 1

(***************************************************************************)
(* Properties of the quick and of the full extraction.                     *)
(***************************************************************************)
\* C24 as stated: in the quick extraction every data row of
\* elements_rapido.csv carries a category of ALLOW_CATEGORIES, and every row
\* of params_top.csv belongs to an element of such a category.  The filter at
\* line 363 is "if cat and (cat not in ALLOW_CATEGORIES)": an element without
\* category is not ignored, and its row carries the empty category.
C24_RowsAreOfAllowedCategories ==
    script = "Rapido" =>
        \A dir \in Dirs :
            /\ \A i \in RowOwners(dir, "elements_rapido.csv") :
                  doc.elements[i].cat \in ALLOW_CATEGORIES
            /\ \A cells \in Cells(dir, "elements_rapido.csv") :
                  cells[4] \in ALLOW_CATEGORIES
            /\ \A i \in ParamRowOwners(dir, "params_top.csv") :
                  doc.elements[i].cat \in ALLOW_CATEGORIES

\* the processed elements whose type the loop body looked up (line 541): the
\* earlier host reads of the element did not raise, and the element has a type
TypeLookedUp ==
    {i \in Processed : doc.elements[i].fault \in {"none", "uniqueid"}
                       /\ doc.elements[i].type_id # 0}
\* the first element of the run whose type is the type of element i
FirstOfType(i) ==
    CHOOSE j \in TypeLookedUp :
        /\ doc.elements[j].type_id = doc.elements[i].type_id
        /\ \A k \in TypeLookedUp :
              doc.elements[k].type_id = doc.elements[i].type_id => j <= k
\* <<name, value>> of the parameters of the type of element i that can be read
\* and have a value, the values cut to MAX_PARAM_LEN
RECURSIVE NamedValues(_)
NamedValues(ps) ==
    IF ps = <<>> THEN <<>>
    ELSE (IF Head(ps).bad \/ Head(ps).value = <<>> THEN <<>>
          ELSE << <<Head(ps).name,
                    IF Len(Head(ps).value) > MAX_PARAM_LEN
                    THEN SubSeq(Head(ps).value, 1, MAX_PARAM_LEN)
                    ELSE Head(ps).value>> >>)
         \o NamedValues(Tail(ps))
TypeParamsOf(i) ==
    IF doc.elements[i].type_id = 0 THEN <<>> ELSE NamedValues(doc.elements[i].tparams)
\* <<name, value cell>> of the type-scope rows that element i has in the file
TypeRowsOf(dir, i) ==
    LET rows == SelectSeq(DataRows(dir, "params.csv"),
                          LAMBDA r : r[2][2] = unique_id(i) /\ r[2][4] = "type")
    IN  [n \in 1..Len(rows) |-> <<rows[n][2][5], rows[n][2][7]>>]
\* the extracted elements of a type node, in the order of extraction
NodeOwners(c, f, t) ==
    [n \in 1..Len(hierarchy[c].families[f].types[t].instances) |->
        hierarchy[c].families[f].types[t].instances[n].unique_id[2]]

TotalsAddUp(h, n) ==
    /\ \A c \in DOMAIN h : \A f \in DOMAIN h[c].families :
          \A t \in DOMAIN h[c].families[f].types :
              h[c].families[f].types[t].total = Len(h[c].families[f].types[t].instances)
    /\ \A c \in DOMAIN h : \A f \in DOMAIN h[c].families :
          h[c].families[f].total = SumTotals(h[c].families[f].types)
    /\ \A c \in DOMAIN h : h[c].total = SumTotals(h[c].families)
    /\ n = SumTotals(h)

Filtered ==
    {i \in 1..Len(doc.elements) :
        /\ doc.elements[i].fault # "category"
        /\ doc.elements[i].cat # ""
        /\ doc.elements[i].cat \notin ALLOW_CATEGORIES}

\* C27: every collected element is counted exactly once.  In the full
\* extraction ok + skipped is the number of elements processed so far, and the
\* number of collected elements when the totals are printed.  In the quick
\* extraction kept + skipped + the elements rejected by the filter is the
\* number of elements processed so far, so the ignored count that is printed,
\* total - kept - skipped, is the number of rejected elements and is not
\* negative.
C27_EveryElementCountedOnce ==
    /\ script = "Completo" =>
          /\ ok + skipped = Cardinality(Processed)
          /\ printed => ok + skipped = Len(doc.elements)
    /\ script = "Rapido" =>
          /\ ok + skipped + Cardinality(Filtered \cap Processed) = Cardinality(Processed)
          /\ printed =>
                /\ Len(doc.elements) - ok - skipped = Cardinality(Filtered)
                /\ Len(doc.elements) - ok - skipped >= 0

\* the quick extraction printed its totals after one element was rejected by
\* the filter and one raised an error
C27_Witness ==
    /\ script = "Rapido" /\ printed
    /\ Len(doc.elements) = 2
    /\ Cardinality(Filtered) = 1
    /\ skipped = 1 /\ ok = 0

\* the full extraction printed its totals after one element was extracted and
\* one raised an error
C27_WitnessCompleto ==
    /\ script = "Completo" /\ printed
    /\ ok = 1 /\ skipped = 1

(***************************************************************************)
(* Properties of the sheet and view metadata export.                       *)
(***************************************************************************)
\* the sheets processed so far
SheetsDone == {i \in 1..Len(doc.sheets) : i < idx}
\* the (sheet, viewport) pairs that the inner loop has gone through
PairsDone ==
    UNION { {<<i, n>> : n \in 1..Len(doc.sheets[i].vports)} :
            i \in {j \in SheetsDone : doc.sheets[j].fault # "viewports"} }
\* the pairs of which no host read raises
PairReadable(p) ==
    /\ ~doc.sheets[p[1]].vports[p[2]].bad
    /\ doc.sheets[p[1]].fault \notin {"name", "number"}
\* the number of data rows that the file holds for the pair
RowsOfPair(dir, p) ==
    Cardinality({n \in 1..Len(DataRows(dir, "sheets_views.csv")) :
                    DataRows(dir, "sheets_views.csv")[n][2][6] = <<"view", p[1], p[2]>>})

C29_ClassifierCopiesAgree ==
    /\ SHEET_KEYWORDS = SHEET_RULES
    /\ stage = "classified" => label = label_v

\* a sheet without number whose name holds a keyword in lower case was
\* classified by both copies with the shipped table
C29_Witness ==
    /\ stage = "classified"
    /\ rules = SHEET_KEYWORDS
    /\ sh.SheetNumber = NoneVal
    /\ sh.Name = <<"c","f","t","v">>
    /\ label = SEGURANCA /\ label_v = SEGURANCA

\* C30: with the shipped thresholds (at least 50 electrical and 50 infra
\* elements, warnings below 10 elements) a consistency warning never comes
\* without a failure: in every validator result warns is empty when issues is
\* empty, so an approved result carries no warning.
C30_ShippedWarningImpliesFailure ==
    (stage = "validated" /\ mins = ShippedMins) =>
        /\ warns # <<>> => issues # <<>>
        /\ approved => warns = <<>>

\* a result under the shipped thresholds with a warning: one element short of
\* the warning cut-off, with a sheet of the discipline
C30_Witness ==
    /\ stage = "validated" /\ mins = ShippedMins
    /\ cnt.s_ele = 1 /\ cnt.count_eletrica = WARN_FEW_ELEMS - 1
    /\ warns # <<>> /\ issues # <<>>

\* an approved result under the shipped thresholds
C30_WitnessApproved ==
    /\ stage = "validated" /\ mins = ShippedMins
    /\ approved /\ warns = <<>>

====
